---- MODULE Spec2Model ----
(***************************************************************************)
(* A model of the local encrypted vault engines of flowexec/vault:         *)
(* AES256Vault (src/aes.go) and AgeVault (src/unnamed/part_003 with the    *)
(* helpers of src/unnamed/part_009 and the key resolver of                 *)
(* src/unnamed/part_010).                                                  *)
(*                                                                         *)
(* The engine object is the record v (fields state, dek, recipients,       *)
(* identities, as in the Go structs), the file system is the record fs     *)
(* (the vault file at fullPath and its ".tmp" sibling).  Every method is   *)
(* a function of (v, fs, arguments, time, outcome of the file system)      *)
(* that returns the new v, the new fs and the returned error.              *)
(*                                                                         *)
(* Further sections model package crypto, SecretValue, two engine objects  *)
(* saving to one path, and the other providers: ExternalVaultProvider      *)
(* (src/unnamed/part_001), KeyringVault (src/unnamed/part_000),            *)
(* UnencryptedVault (src/unnamed/part_006) and LocalVault (src/local.go).  *)
(***************************************************************************)
EXTENDS Integers, Sequences, FiniteSets, TLC

\* ------------------------------------------------------------------ bounds
\* The clock takes the values 0..MaxClock (it stops advancing there).
MaxClock == 1
\* File-system faults and crashes injected in one behaviour.
MaxFaults == 1
\* Goroutines of the concurrent specification.
NThreads == 2
\* Calls the goroutines of the concurrent specification make in all.
MaxCalls == 3
\* Sources of a key or identity resolver.
MaxSources == 2

\* ------------------------------------------------------------ basic values
\* A nil pointer / nil error.
Nil == "nil"

aesCurrentVaultVersion == 1
ageCurrentVaultVersion == 1

\* A nil *AESState / *AgeState.
NilState == [kind |-> "nil"]

\* A path with no file, and a file whose write was cut short.
NoFile == [kind |-> "absent"]
Partial == [kind |-> "partial"]

\* Secret values are byte strings: "v" and the single byte 0xFF, which is not
\* valid UTF-8.
SecretValues == {<<118>>, <<255>>}

\* Secret names are strings (sequences of characters).
ValidNames == {<<"a">>, <<"b">>}
InvalidNames == {<<>>, <<"a", " ">>}
Names == ValidNames \cup InvalidNames

\* Characters of the class [a-zA-Z0-9-_.] that the names of this module use.
AllowedChars == {"a", "b", "c", "A", "9", "-", "_", "."}

\* ValidateSecretKey: non-empty and every character in the class.
ValidateSecretKey(reference) ==
    IF reference = <<>> THEN "InvalidKey"
    ELSE IF \A i \in 1..Len(reference) : reference[i] \in AllowedChars THEN Nil
    ELSE "InvalidKey"

\* ------------------------------------------------------------------- time
\* A time.Time: the wall clock reading and whether a monotonic reading is
\* attached (time.Now attaches one, a parsed time has none).
TimeNow(t) == [wall |-> t, mono |-> TRUE]
TimeParsed(w) == [wall |-> w, mono |-> FALSE]
\* time.Time.Equal compares the instants.
TimeEqual(a, b) == a.wall = b.wall

\* The readings a call of time.Now() may return when the last one was c.
NowValues(c) == IF c < MaxClock THEN {c, c + 1} ELSE {c}

\* ------------------------------------------------------------- sequences
Range(s) == {s[i] : i \in 1..Len(s)}

\* Go's append(s[:i], s[i+1:]...).
RemoveAt(s, i) == SubSeq(s, 1, i - 1) \o SubSeq(s, i + 1, Len(s))

\* The index of the first element equal to x, 0 if there is none.
IndexOf(s, x) ==
    IF \E i \in 1..Len(s) : s[i] = x
    THEN CHOOSE i \in 1..Len(s) : s[i] = x /\ \A j \in 1..(i - 1) : s[j] # x
    ELSE 0

\* All orderings of a finite set (Go iterates a map in no fixed order).
Orderings(S) ==
    {s \in [1..Cardinality(S) -> S] : \A i, j \in 1..Cardinality(S) : i # j => s[i] # s[j]}

\* -------------------------------------------------------- serialization
\* UTF-8 as encoding/json decodes it, on the byte strings used here: an
\* ASCII byte, or a lead byte E0..EF followed by two continuation bytes.
IsCont(b) == b >= 128 /\ b <= 191

RECURSIVE JsonCoerce(_)
\* json.Marshal coerces a string to valid UTF-8: every invalid byte becomes
\* U+FFFD, whose encoding is EF BF BD.
JsonCoerce(s) ==
    IF s = <<>> THEN <<>>
    ELSE IF s[1] < 128 THEN <<s[1]>> \o JsonCoerce(Tail(s))
    ELSE IF s[1] >= 224 /\ s[1] <= 239 /\ Len(s) >= 3 /\ IsCont(s[2]) /\ IsCont(s[3])
         THEN SubSeq(s, 1, 3) \o JsonCoerce(SubSeq(s, 4, Len(s)))
    ELSE <<239, 191, 189>> \o JsonCoerce(Tail(s))

\* json.Marshal of an AgeState: times as RFC 3339 text (the instant only),
\* strings coerced to valid UTF-8.
JsonMarshal(state) ==
    [syntax |-> "json",
     version |-> state.version,
     created |-> state.created.wall,
     lastModified |-> state.lastModified.wall,
     recipients |-> state.recipients,
     secrets |-> [k \in DOMAIN state.secrets |-> JsonCoerce(state.secrets[k])]]

\* yaml.Marshal of an AESState: times as RFC 3339 text, a string that is not
\* valid UTF-8 is written base64 under !!binary and read back as it was.
YamlMarshal(state) ==
    [syntax |-> "yaml",
     version |-> state.version,
     created |-> state.created.wall,
     lastModified |-> state.lastModified.wall,
     recipients |-> <<>>,
     secrets |-> state.secrets]

\* A text that is neither YAML nor JSON of a mapping.
NotADocument ==
    [syntax |-> "text", version |-> 0, created |-> 0, lastModified |-> 0,
     recipients |-> <<>>, secrets |-> <<>>]

\* Whether yaml.Unmarshal (JSON is YAML too) and json.Decode accept a text.
YamlParses(doc) == doc.syntax \in {"yaml", "json"}
JsonParses(doc) == doc.syntax = "json"

\* json.Decode / yaml.Unmarshal into a state struct.
Unmarshal(doc) ==
    [kind |-> "state",
     version |-> doc.version,
     created |-> TimeParsed(doc.created),
     lastModified |-> TimeParsed(doc.lastModified),
     recipients |-> doc.recipients,
     secrets |-> doc.secrets]

\* ------------------------------------------------------------------ crypto
\* AES keys as configured: two well-formed keys and one string that is not
\* the base64 of 32 bytes.
AesKeys == {"key1", "key2"}
MalformedKey == "not-base64"

\* crypto.EncryptValue: fails on a malformed key, else the AES-GCM sealing
\* of the text under the key.
EncryptValue(encryptionKey, text) ==
    IF encryptionKey \notin AesKeys
    THEN [err |-> "EncryptError", out |-> NoFile]
    ELSE [err |-> Nil, out |-> [kind |-> "aes", key |-> encryptionKey, plain |-> text]]

\* crypto.DecryptValue: fails on a malformed key, on data that is no sealed
\* message and when authentication under the key fails.
DecryptValue(encryptionKey, data) ==
    IF encryptionKey \notin AesKeys THEN [err |-> "DecryptError", out |-> Nil]
    ELSE IF data.kind # "aes" THEN [err |-> "DecryptError", out |-> Nil]
    ELSE IF data.key # encryptionKey THEN [err |-> "DecryptError", out |-> Nil]
    ELSE [err |-> Nil, out |-> data.plain]

\* age X25519 key pairs: identity idX has the recipient (public key) pkX.
AgeIdentities == {"idA", "idB"}
AgeRecipients == {"pkA", "pkB"}
MalformedRecipient == "invalid-recipient-key"
PublicOf(id) == IF id = "idA" THEN "pkA" ELSE "pkB"

\* age.ParseX25519Recipient.
ParseX25519Recipient(s) == IF s \in AgeRecipients THEN Nil ELSE "InvalidRecipient"

\* age.Encrypt to a list of parsed recipients: one stanza per recipient.
AgeEncrypt(recipients, data) ==
    [kind |-> "age", rcpts |-> Range(recipients), plain |-> data]

\* age.Decrypt with a list of identities: succeeds when one identity
\* unwraps one stanza.
AgeDecrypt(data, identities) ==
    IF data.kind # "age" THEN [err |-> "DecryptError", out |-> Nil]
    ELSE IF \E i \in 1..Len(identities) : PublicOf(identities[i]) \in data.rcpts
         THEN [err |-> Nil, out |-> data.plain]
    ELSE [err |-> "DecryptError", out |-> Nil]

\* ------------------------------------------------------------ file system
\* What the file-system calls of one save do: all succeed, one of them
\* fails, or the process dies at one of the steps.
FaultOutcomes == {"encryptErr", "mkdirErr", "writeErr", "renameErr"}
CrashOutcomes == {"crashBeforeWrite", "crashInWrite", "crashBeforeRename", "crashAfterRename"}
SaveOutcomes == {"ok"} \cup FaultOutcomes \cup CrashOutcomes

\* The error value standing for "the process died inside the call".
Crashed == "crashed"

\* A save that writes the data straight to the vault file.
WriteInPlace(fs, data, out) ==
    CASE out = "mkdirErr" -> [fs |-> fs, err |-> "MkdirError"]
      [] out = "writeErr" -> [fs |-> [fs EXCEPT !.file = Partial], err |-> "WriteError"]
      [] out = "renameErr" -> [fs |-> [fs EXCEPT !.file = data], err |-> Nil]
      [] out = "crashBeforeWrite" -> [fs |-> fs, err |-> Crashed]
      [] out = "crashInWrite" -> [fs |-> [fs EXCEPT !.file = Partial], err |-> Crashed]
      [] out = "crashBeforeRename" -> [fs |-> [fs EXCEPT !.file = data], err |-> Crashed]
      [] out = "crashAfterRename" -> [fs |-> [fs EXCEPT !.file = data], err |-> Crashed]
      [] OTHER -> [fs |-> [fs EXCEPT !.file = data], err |-> Nil]

\* os.WriteFile(tempFile, data): the temp file holds the data.
WriteFile(fs, data) == [fs EXCEPT !.tmp = data]

\* os.Rename(tempFile, fullPath): fails when there is no temp file, else the
\* vault file becomes the temp file.
Rename(fs) ==
    IF fs.tmp = NoFile THEN [fs |-> fs, err |-> "RenameError"]
    ELSE [fs |-> [file |-> fs.tmp, tmp |-> NoFile], err |-> Nil]

\* The tail of save: MkdirAll, WriteFile(fullPath + ".tmp"), Rename to
\* fullPath (the temp file is removed when the rename fails).
WriteAtomic(fs, data, out) ==
    CASE out = "mkdirErr" -> [fs |-> fs, err |-> "MkdirError"]
      [] out = "writeErr" -> [fs |-> [fs EXCEPT !.tmp = Partial], err |-> "WriteError"]
      [] out = "renameErr" -> [fs |-> [fs EXCEPT !.tmp = NoFile], err |-> "RenameError"]
      [] out = "crashBeforeWrite" -> [fs |-> fs, err |-> Crashed]
      [] out = "crashInWrite" -> [fs |-> [fs EXCEPT !.tmp = Partial], err |-> Crashed]
      [] out = "crashBeforeRename" -> [fs |-> [fs EXCEPT !.tmp = data], err |-> Crashed]
      [] out = "crashAfterRename" -> [fs |-> [file |-> data, tmp |-> NoFile], err |-> Crashed]
      [] OTHER -> Rename(WriteFile(fs, data))

\* ------------------------------------------------------------ key resolver
\* A key or identity source: its type and what reading it yields ("" for an
\* unset variable or an unreadable file).
EnvSource(content) == [type |-> "env", content |-> content]
FileSource(content) == [type |-> "file", content |-> content]

\* strings.TrimSpace, on the contents that files have here.
TrimSpace(content) ==
    CASE content = " " -> ""
      [] content = "key1 " -> "key1"
      [] content = "idA " -> "idA"
      [] OTHER -> content

\* KeyResolver.fromEnvironment (the value of the variable, as it is) and
\* KeyResolver.fromFile (the content of the file, trimmed), "" for none.
KeyFrom(source) ==
    IF source.type = "file" THEN TrimSpace(source.content) ELSE source.content

\* NewKeyResolver / NewIdentityResolver: without sources, the one source is
\* the default environment variable, whose value is defaultValue.
NewResolver(sources, defaultValue) ==
    IF Len(sources) = 0 THEN <<EnvSource(defaultValue)>> ELSE sources

\* A ResolveKeys that stops at the first source without a key.
ResolveKeys_failFast(sources) ==
    LET n == IF \E i \in 1..Len(sources) : KeyFrom(sources[i]) = ""
             THEN (CHOOSE i \in 1..Len(sources) :
                      /\ KeyFrom(sources[i]) = ""
                      /\ \A j \in 1..(i - 1) : KeyFrom(sources[j]) # "") - 1
             ELSE Len(sources)
    IN IF n = 0 THEN [err |-> "NoAccess", keys |-> <<>>]
       ELSE [err |-> Nil, keys |-> [i \in 1..n |-> KeyFrom(sources[i])]]

\* KeyResolver.ResolveKeys: the non-empty values of the sources, in order.
ResolveKeys(sources) ==
    LET keys == SelectSeq([i \in 1..Len(sources) |-> KeyFrom(sources[i])], LAMBDA k : k # "")
    IN IF Len(keys) = 0 THEN [err |-> "NoAccess", keys |-> <<>>]
       ELSE [err |-> Nil, keys |-> keys]

\* A loop of TryDecrypt that gives up when the first key does not decrypt.
TryKeys_firstOnly(keys, encryptedData) ==
    IF keys = <<>> THEN [err |-> "DecryptionFailed", data |-> Nil, key |-> ""]
    ELSE LET d == DecryptValue(Head(keys), encryptedData)
         IN IF d.err # Nil THEN [err |-> "DecryptionFailed", data |-> Nil, key |-> ""]
            ELSE [err |-> Nil, data |-> d.out, key |-> Head(keys)]

RECURSIVE TryKeys(_, _)
\* The loop of TryDecrypt: the first key that decrypts.
TryKeys(keys, encryptedData) ==
    IF keys = <<>> THEN [err |-> "DecryptionFailed", data |-> Nil, key |-> ""]
    ELSE LET d == DecryptValue(Head(keys), encryptedData)
         IN IF d.err # Nil THEN TryKeys(Tail(keys), encryptedData)
            ELSE [err |-> Nil, data |-> d.out, key |-> Head(keys)]

\* KeyResolver.TryDecrypt.
TryDecrypt(sources, encryptedData) ==
    LET r == ResolveKeys(sources)
    IN IF r.err # Nil THEN [err |-> r.err, data |-> Nil, key |-> ""]
       ELSE TryKeys(r.keys, encryptedData)

RECURSIVE ResolveIdentitiesFrom(_, _)
\* The loop of ResolveIdentities: an env source that is unset or does not
\* parse is skipped, a file source that cannot be read or parsed is an error.
ResolveIdentitiesFrom(sources, identities) ==
    IF sources = <<>> THEN [err |-> Nil, ids |-> identities]
    ELSE LET s == Head(sources)
         IN IF KeyFrom(s) \in AgeIdentities
            THEN ResolveIdentitiesFrom(Tail(sources), Append(identities, KeyFrom(s)))
            ELSE IF s.type = "file" THEN [err |-> "IdentityFileError", ids |-> <<>>]
            ELSE ResolveIdentitiesFrom(Tail(sources), identities)

\* IdentityResolver.ResolveIdentities.
ResolveIdentities(sources) ==
    LET r == ResolveIdentitiesFrom(sources, <<>>)
    IN IF r.err # Nil THEN r
       ELSE IF Len(r.ids) = 0 THEN [err |-> "NoAccess", ids |-> <<>>]
       ELSE r

\* ------------------------------------------------------------ AES256Vault
\* The engine object before load or init: no state, no key material.
\* cfgRecipients is the array behind the Recipients slice of the Config the
\* engine holds a pointer to, and aliased tells whether state.Recipients is a
\* slice of that same array.
NewEngine == [state |-> NilState, dek |-> "", recipients |-> <<>>, identities |-> <<>>,
              cfgRecipients |-> <<>>, aliased |-> FALSE]

\* The result of a method: the engine, the file system and the error.
Result(v, fs, err) == [v |-> v, fs |-> fs, err |-> err]

\* A save that writes the marshalled state without encrypting it.
AES256Vault_seal_plain(v, now) ==
    IF v.state = NilState THEN [skip |-> TRUE, v |-> v, err |-> Nil, data |-> NoFile]
    ELSE IF v.dek = "" THEN [skip |-> FALSE, v |-> v, err |-> "NoKey", data |-> NoFile]
    ELSE LET v1 == [v EXCEPT !.state.lastModified = TimeNow(now)]
         IN [skip |-> FALSE, v |-> v1, err |-> Nil, data |-> YamlMarshal(v1.state)]

\* The head of AES256Vault.save, up to the encrypted data: nothing to do
\* without a state, an error without a key, else last-modified is set and the
\* marshalled state is encrypted.
AES256Vault_seal(v, now) ==
    IF v.state = NilState THEN [skip |-> TRUE, v |-> v, err |-> Nil, data |-> NoFile]
    ELSE IF v.dek = "" THEN [skip |-> FALSE, v |-> v, err |-> "NoKey", data |-> NoFile]
    ELSE LET v1 == [v EXCEPT !.state.lastModified = TimeNow(now)]
             enc == EncryptValue(v1.dek, YamlMarshal(v1.state))
         IN [skip |-> FALSE, v |-> v1, err |-> enc.err, data |-> enc.out]

\* AES256Vault.save.
AES256Vault_save(v, fs, now, out) ==
    LET s == AES256Vault_seal(v, now)
    IN IF s.skip \/ s.err # Nil THEN Result(s.v, fs, s.err)
       ELSE IF out = "encryptErr" THEN Result(s.v, fs, "EncryptError")
       ELSE LET w == WriteAtomic(fs, s.data, out)
            IN Result(s.v, w.fs, w.err)

\* A load that keeps the first resolved key instead of the key that decrypted.
AES256Vault_load_firstKey(v, fs, cfg) ==
    IF fs.file = NoFile THEN Result(v, fs, Nil)
    ELSE LET d == TryDecrypt(cfg.keySource, fs.file)
         IN IF d.err # Nil THEN Result(v, fs, d.err)
            ELSE IF ~YamlParses(d.data) THEN Result(v, fs, "UnmarshalError")
            ELSE Result([v EXCEPT !.dek = ResolveKeys(cfg.keySource).keys[1],
                                  !.state = Unmarshal(d.data)], fs, Nil)

\* A load that writes what it loaded back under the current version.
AES256Vault_load_upgrade(v, fs, cfg) ==
    IF fs.file = NoFile THEN Result(v, fs, Nil)
    ELSE LET d == TryDecrypt(cfg.keySource, fs.file)
         IN IF d.err # Nil THEN Result(v, fs, d.err)
            ELSE IF ~YamlParses(d.data) THEN Result(v, fs, "UnmarshalError")
            ELSE LET e == [v EXCEPT !.dek = d.key, !.state = Unmarshal(d.data)]
                     u == [e.state EXCEPT !.version = aesCurrentVaultVersion]
                 IN Result(e, [fs EXCEPT !.file = EncryptValue(d.key, YamlMarshal(u)).out], Nil)

\* AES256Vault.load.
AES256Vault_load(v, fs, cfg) ==
    IF fs.file = NoFile THEN Result(v, fs, Nil)
    ELSE LET d == TryDecrypt(cfg.keySource, fs.file)
         IN IF d.err # Nil THEN Result(v, fs, d.err)
            ELSE IF ~YamlParses(d.data) THEN Result(v, fs, "UnmarshalError")
            ELSE Result([v EXCEPT !.dek = d.key, !.state = Unmarshal(d.data)], fs, Nil)

\* An init that builds the state and does not save it.
AES256Vault_init_noSave(v, fs, cfg, now, now2, out) ==
    LET r == ResolveKeys(cfg.keySource)
    IN IF r.err # Nil THEN Result(v, fs, r.err)
       ELSE Result([v EXCEPT !.dek = r.keys[1],
                             !.state = [kind |-> "state",
                                        version |-> aesCurrentVaultVersion,
                                        created |-> TimeNow(now),
                                        lastModified |-> TimeNow(now),
                                        recipients |-> <<>>,
                                        secrets |-> <<>>]],
                   fs, Nil)

\* AES256Vault.init: created and last-modified are one reading of the
\* clock, save takes a second one.
AES256Vault_init(v, fs, cfg, now, now2, out) ==
    LET r == ResolveKeys(cfg.keySource)
    IN IF r.err # Nil THEN Result(v, fs, r.err)
       ELSE AES256Vault_save(
                [v EXCEPT !.dek = r.keys[1],
                          !.state = [kind |-> "state",
                                     version |-> aesCurrentVaultVersion,
                                     created |-> TimeNow(now),
                                     lastModified |-> TimeNow(now),
                                     recipients |-> <<>>,
                                     secrets |-> <<>>]],
                fs, now2, out)

\* A NewAES256Vault that initializes the vault when load fails.
NewAES256Vault_initOnError(cfg, fs, now, now2, out) ==
    LET l == AES256Vault_load(NewEngine, fs, cfg)
    IN IF l.err # Nil \/ l.v.state = NilState
       THEN LET i == AES256Vault_init(NewEngine, fs, cfg, now, now2, out)
            IN IF i.err # Nil /\ i.err # Crashed THEN Result(NewEngine, i.fs, i.err)
               ELSE i
       ELSE l

\* NewAES256Vault: load, and init when there was nothing to load.
NewAES256Vault(cfg, fs, now, now2, out) ==
    LET l == AES256Vault_load(NewEngine, fs, cfg)
    IN IF l.err # Nil THEN Result(NewEngine, fs, l.err)
       ELSE IF l.v.state = NilState
            THEN LET i == AES256Vault_init(l.v, fs, cfg, now, now2, out)
                 IN IF i.err # Nil /\ i.err # Crashed THEN Result(NewEngine, i.fs, i.err)
                    ELSE i
       ELSE l

\* ---------------------------------------------------------------- AgeVault
RECURSIVE ParseAll(_)
\* The loop of parseRecipients: the first recipient that does not parse.
ParseAll(recipients) ==
    IF recipients = <<>> THEN Nil
    ELSE IF ParseX25519Recipient(Head(recipients)) # Nil THEN "InvalidRecipient"
    ELSE ParseAll(Tail(recipients))

\* AgeVault.parseRecipients: v.recipients is rebuilt from state.Recipients,
\* up to the first one that does not parse.
parseRecipients(v) ==
    LET bad == {i \in 1..Len(v.state.recipients) :
                    ParseX25519Recipient(v.state.recipients[i]) # Nil}
        n == IF bad = {} THEN Len(v.state.recipients)
             ELSE (CHOOSE i \in bad : \A j \in bad : i <= j) - 1
    IN [v |-> [v EXCEPT !.recipients = SubSeq(v.state.recipients, 1, n)],
        err |-> ParseAll(v.state.recipients)]

\* append(state.Recipients, publicKey): with spare capacity in an array
\* shared with the Config the element is written in place, otherwise the
\* slice moves to an array of its own.
AppendRecipient(v, publicKey) ==
    LET n == Len(v.state.recipients)
    IN IF v.aliased /\ n < Len(v.cfgRecipients)
       THEN [v EXCEPT !.state.recipients = Append(@, publicKey),
                      !.cfgRecipients[n + 1] = publicKey]
       ELSE [v EXCEPT !.state.recipients = Append(@, publicKey), !.aliased = FALSE]

\* append(state.Recipients[:i], state.Recipients[i+1:]...): the elements
\* after i move one place down inside the array, shared or not.
CutRecipient(v, i) ==
    LET n == Len(v.state.recipients)
    IN IF v.aliased
       THEN [v EXCEPT !.state.recipients = RemoveAt(@, i),
                      !.cfgRecipients = RemoveAt(SubSeq(@, 1, n), i) \o SubSeq(@, n, Len(@))]
       ELSE [v EXCEPT !.state.recipients = RemoveAt(@, i)]

\* An addRecipientToState that appends without looking for the key.
addRecipientToState_noScan(v, publicKey) ==
    IF ParseX25519Recipient(publicKey) # Nil THEN [v |-> v, err |-> "InvalidRecipient"]
    ELSE [v |-> AppendRecipient(v, publicKey), err |-> Nil]

\* AgeVault.addRecipientToState.
addRecipientToState(v, publicKey) ==
    IF ParseX25519Recipient(publicKey) # Nil THEN [v |-> v, err |-> "InvalidRecipient"]
    ELSE IF \E i \in 1..Len(v.state.recipients) : v.state.recipients[i] = publicKey
         THEN [v |-> v, err |-> Nil]
    ELSE [v |-> AppendRecipient(v, publicKey), err |-> Nil]

\* The head of AgeVault.save, up to the encrypted data.
AgeVault_seal(v, now) ==
    IF v.state = NilState THEN [skip |-> TRUE, v |-> v, err |-> Nil, data |-> NoFile]
    ELSE IF Len(v.recipients) = 0
         THEN [skip |-> FALSE, v |-> v, err |-> "NoRecipients", data |-> NoFile]
    ELSE LET v1 == [v EXCEPT !.state.lastModified = TimeNow(now)]
         IN [skip |-> FALSE, v |-> v1, err |-> Nil,
             data |-> AgeEncrypt(v1.recipients, JsonMarshal(v1.state))]

\* AgeVault.save.
AgeVault_save(v, fs, now, out) ==
    LET s == AgeVault_seal(v, now)
    IN IF s.skip \/ s.err # Nil THEN Result(s.v, fs, s.err)
       ELSE IF out = "encryptErr" THEN Result(s.v, fs, "EncryptError")
       ELSE LET w == WriteAtomic(fs, s.data, out)
            IN Result(s.v, w.fs, w.err)

\* AgeVault.load.
AgeVault_load(v, fs) ==
    IF fs.file = NoFile THEN Result(v, fs, Nil)
    ELSE LET d == AgeDecrypt(fs.file, v.identities)
         IN IF d.err # Nil THEN Result(v, fs, d.err)
            ELSE IF ~JsonParses(d.out) THEN Result(v, fs, "UnmarshalError")
            ELSE LET p == parseRecipients([v EXCEPT !.state = Unmarshal(d.out)])
                 IN Result(p.v, fs, p.err)

RECURSIVE AddInitial(_, _)
\* The loop of init over cfg.Recipients.
AddInitial(v, keys) ==
    IF keys = <<>> THEN [v |-> v, err |-> Nil]
    ELSE LET a == addRecipientToState(v, Head(keys))
         IN IF a.err # Nil THEN a ELSE AddInitial(a.v, Tail(keys))

\* AgeVault.init: the state starts with cfg.Recipients as its recipient list,
\* then every configured recipient goes through addRecipientToState.
AgeVault_init(v, fs, cfg, now, now2, out) ==
    LET v0 == [v EXCEPT !.state = [kind |-> "state",
                                   version |-> ageCurrentVaultVersion,
                                   created |-> TimeNow(now),
                                   lastModified |-> TimeNow(now),
                                   recipients |-> cfg.recipients,
                                   secrets |-> <<>>],
                        !.aliased = (cfg.recipients # <<>>)]
        a == AddInitial(v0, cfg.recipients)
    IN IF a.err # Nil THEN Result(a.v, fs, a.err)
       ELSE IF Len(a.v.state.recipients) = 0 THEN Result(a.v, fs, "NoRecipients")
       ELSE LET p == parseRecipients(a.v)
            IN IF p.err # Nil THEN Result(p.v, fs, p.err)
               ELSE AgeVault_save(p.v, fs, now2, out)

\* NewAgeVault: resolve the identities, load, and init when there was
\* nothing to load.
NewAgeVault(cfg, fs, now, now2, out) ==
    LET ids == ResolveIdentities(cfg.identitySources)
    IN IF ids.err # Nil THEN Result(NewEngine, fs, ids.err)
       ELSE LET l == AgeVault_load([NewEngine EXCEPT !.identities = ids.ids,
                                                     !.cfgRecipients = cfg.recipients], fs)
            IN IF l.err # Nil THEN Result(NewEngine, fs, l.err)
               ELSE IF l.v.state = NilState
                    THEN LET i == AgeVault_init(l.v, fs, cfg, now, now2, out)
                         IN IF i.err # Nil /\ i.err # Crashed
                            THEN Result(NewEngine, i.fs, i.err)
                            ELSE i
               ELSE l

\* ------------------------------------------------------- provider methods
\* NewSecretValue and PlainTextString: a copy of the bytes, and the bytes
\* as a string.
NewSecretValue(value) == [value |-> value]
PlainTextString(secret) == secret.value

\* The map with key set to value, and the map without key.
MapSet(m, key, value) == [k \in DOMAIN m \cup {key} |-> IF k = key THEN value ELSE m[k]]
MapDelete(m, key) == [k \in DOMAIN m \ {key} |-> m[k]]

\* GetSecret (the two engines have the same body).
GetSecret(v, key) ==
    IF key \in DOMAIN v.state.secrets
    THEN [secret |-> NewSecretValue(v.state.secrets[key]), err |-> Nil]
    ELSE [secret |-> Nil, err |-> "SecretNotFound"]

\* HasSecret.
HasSecret(v, key) == [exists |-> key \in DOMAIN v.state.secrets, err |-> Nil]

\* ListSecrets: the results it may return, the keys of the map in any order.
ListSecrets(v) == Orderings(DOMAIN v.state.secrets)

\* Metadata (AES256Vault).
Metadata(v) ==
    IF v.state = NilState THEN [created |-> TimeParsed(0), lastModified |-> TimeParsed(0)]
    ELSE [created |-> v.state.created, lastModified |-> v.state.lastModified]

\* ListRecipients: a copy of state.Recipients.
ListRecipients(v) == v.state.recipients

\* A SetSecret that does not validate the name.
SetSecret_update_noValidate(v, key, secret) ==
    [v |-> [v EXCEPT !.state.secrets = MapSet(@, key, PlainTextString(secret))],
     err |-> Nil]

\* The part of SetSecret before save (the two engines have the same body).
SetSecret_update(v, key, secret) ==
    IF ValidateSecretKey(key) # Nil THEN [v |-> v, err |-> ValidateSecretKey(key)]
    ELSE [v |-> [v EXCEPT !.state.secrets = MapSet(@, key, PlainTextString(secret))],
          err |-> Nil]

\* A DeleteSecret that leaves the entry in the map.
DeleteSecret_keepsEntry(v, key) ==
    IF key \notin DOMAIN v.state.secrets THEN [v |-> v, err |-> "SecretNotFound"]
    ELSE [v |-> v, err |-> Nil]

\* The part of DeleteSecret before save.
DeleteSecret_update(v, key) ==
    IF key \notin DOMAIN v.state.secrets THEN [v |-> v, err |-> "SecretNotFound"]
    ELSE [v |-> [v EXCEPT !.state.secrets = MapDelete(@, key)], err |-> Nil]

\* AES256Vault.SetSecret.
AES256Vault_SetSecret(v, fs, key, secret, now, out) ==
    LET u == SetSecret_update(v, key, secret)
    IN IF u.err # Nil THEN Result(u.v, fs, u.err)
       ELSE AES256Vault_save(u.v, fs, now, out)

\* AES256Vault.DeleteSecret.
AES256Vault_DeleteSecret(v, fs, key, now, out) ==
    LET u == DeleteSecret_update(v, key)
    IN IF u.err # Nil THEN Result(u.v, fs, u.err)
       ELSE AES256Vault_save(u.v, fs, now, out)

\* AES256Vault.Close.
AES256Vault_Close(v) == [v EXCEPT !.dek = "", !.state = NilState]

\* AgeVault.SetSecret.
AgeVault_SetSecret(v, fs, key, secret, now, out) ==
    LET u == SetSecret_update(v, key, secret)
    IN IF u.err # Nil THEN Result(u.v, fs, u.err)
       ELSE AgeVault_save(u.v, fs, now, out)

\* AgeVault.DeleteSecret.
AgeVault_DeleteSecret(v, fs, key, now, out) ==
    LET u == DeleteSecret_update(v, key)
    IN IF u.err # Nil THEN Result(u.v, fs, u.err)
       ELSE AgeVault_save(u.v, fs, now, out)

\* AgeVault.Close.
AgeVault_Close(v) ==
    [v EXCEPT !.state = NilState, !.recipients = <<>>, !.identities = <<>>]

\* The part of AddRecipient before save.
AddRecipient_update(v, publicKey) ==
    LET a == addRecipientToState(v, publicKey)
    IN IF a.err # Nil THEN a ELSE parseRecipients(a.v)

\* AgeVault.AddRecipient.
AddRecipient(v, fs, publicKey, now, out) ==
    LET u == AddRecipient_update(v, publicKey)
    IN IF u.err # Nil THEN Result(u.v, fs, u.err)
       ELSE AgeVault_save(u.v, fs, now, out)

\* A RemoveRecipient without the guard on the last recipient.
RemoveRecipient_noGuard(v, publicKey) ==
    LET i == IndexOf(v.state.recipients, publicKey)
    IN IF i = 0 THEN [v |-> v, err |-> "RecipientNotFound"]
       ELSE parseRecipients(CutRecipient(v, i))

\* The part of RemoveRecipient before save: the guard on the length comes
\* first, then the search for the key.
RemoveRecipient_update(v, publicKey) ==
    IF Len(v.state.recipients) <= 1 THEN [v |-> v, err |-> "LastRecipient"]
    ELSE LET i == IndexOf(v.state.recipients, publicKey)
         IN IF i = 0 THEN [v |-> v, err |-> "RecipientNotFound"]
            ELSE parseRecipients(CutRecipient(v, i))

\* AgeVault.RemoveRecipient.
RemoveRecipient(v, fs, publicKey, now, out) ==
    LET u == RemoveRecipient_update(v, publicKey)
    IN IF u.err # Nil THEN Result(u.v, fs, u.err)
       ELSE AgeVault_save(u.v, fs, now, out)

\* ----------------------------------------------------------- configuration
\* A Config: the key sources (AES), the identity sources and the configured
\* recipients (age).
AesConfig(keySource) ==
    [keySource |-> keySource, identitySources |-> <<>>, recipients |-> <<>>]
AgeConfig(identitySources, recipients) ==
    [keySource |-> <<>>, identitySources |-> identitySources, recipients |-> recipients]

AesConfigs ==
    {AesConfig(<<EnvSource("key1")>>),
     AesConfig(<<EnvSource("key2"), FileSource("key1")>>),
     AesConfig(<<EnvSource("")>>),
     AesConfig(<<EnvSource(MalformedKey)>>)}

AgeConfigs ==
    {AgeConfig(<<EnvSource("idA")>>, <<"pkA">>),
     AgeConfig(<<EnvSource("idA")>>, <<"pkA", "pkA">>),
     AgeConfig(<<EnvSource(""), FileSource("idA")>>, <<"pkA", "pkB">>),
     AgeConfig(<<EnvSource("idA")>>, <<>>),
     AgeConfig(<<EnvSource("idA")>>, <<MalformedRecipient>>),
     AgeConfig(<<EnvSource("")>>, <<"pkA">>)}

\* ------------------------------------------------------------------- state
VARIABLES
    engine,       \* "aes" or "age": the provider type of the vault
    scope,        \* what the host does with the vault: "secrets" or "recipients"
    phase,        \* "none" (no engine object), "open", "closed", "crashed"
    cfg,          \* the Config the engine was created from
    v,            \* the engine object
    fs,           \* the vault file and its ".tmp" sibling
    clock,        \* the last reading of the wall clock
    faults,       \* file-system faults and crashes so far
    last,         \* the last call: its name, argument and returned error
    expect,       \* name -> value of the latest successful SetSecret, this session
    dirty,        \* a save failed in this session
    closed,       \* what Close saw: the secret map, last-modified, dirty, the identity's access
    createdAt,    \* the reading of the clock stored as created by init
    lastWritten,  \* the last-modified reading in the last file that was written
    crash,        \* the vault file before and the file being written, at a crash
    pc,           \* goroutine -> where it is in its call
    req,          \* goroutine -> the call it makes
    mu,           \* the engine's sync.RWMutex
    ret,          \* goroutine -> the error its last call returned
    order,        \* the SetSecret calls, in the order they updated the map
    listed,       \* the results ListSecrets returned
    calls,        \* calls made so far
    pure,         \* only SetSecret and ListSecrets have been called
    fn,           \* a function of the package applied on its own: name, arguments
    result,       \* what it returned
    rand,         \* how many values have been read from crypto/rand
    mem,          \* the byte arrays behind a SecretValue and its caller's slices
    disk,         \* two engine objects on one path: the directory, the inodes, the saves
    ext,          \* an ExternalVaultProvider, its mutex and the goroutines calling it
    ring,         \* a KeyringVault with the system keyring, or an UnencryptedVault with its file
    loc           \* a LocalVault and its file

\* The variables of the goroutines.
conc == <<pc, req, mu, ret, order, listed, calls, pure>>

\* The bookkeeping of the sequential host.
host == <<scope, cfg, faults, last, expect, dirty, closed, createdAt, lastWritten, crash>>

\* The variables of the other providers and of a second engine object.
others == <<disk, ext, ring, loc>>

vars == <<engine, scope, phase, cfg, v, fs, clock, faults, last, expect, dirty, closed,
          createdAt, lastWritten, crash, pc, req, mu, ret, order, listed, calls, pure,
          fn, result, rand, mem, others>>

\* No second engine object.
NoDisk == [inodes |-> <<>>, file |-> 0, tmp |-> 0,
           at |-> <<"idle", "idle">>, fd |-> <<0, 0>>, saves |-> <<0, 0>>]

\* No ExternalVaultProvider.
NoExt == [kind |-> "none"]

\* No KeyringVault and no UnencryptedVault.
NoRing == [kind |-> "none"]

\* No LocalVault.
NoLocal == [kind |-> "none"]

\* No function has been applied on its own.
NoApplication ==
    /\ fn = [op |-> "none"]
    /\ result = [err |-> Nil]
    /\ rand = 0
    /\ mem = [heap |-> <<>>, held |-> {}, secret |-> 0, original |-> <<>>]
    /\ disk = NoDisk
    /\ ext = NoExt
    /\ ring = NoRing
    /\ loc = NoLocal

Thread == 1..NThreads
NoRequest == [op |-> "none", key |-> <<>>, value |-> <<>>, pk |-> ""]

\* No goroutine has made a call.
ConcIdle ==
    /\ pc = [t \in Thread |-> "idle"]
    /\ req = [t \in Thread |-> NoRequest]
    /\ mu = [writer |-> 0, readers |-> {}]
    /\ ret = [t \in Thread |-> Nil]
    /\ order = <<>>
    /\ listed = {}
    /\ calls = 0
    /\ pure = TRUE

NoCrash == [kind |-> "none"]
NotClosed == [kind |-> "none"]
Call(op, arg, err) == [op |-> op, arg |-> arg, ret |-> err]

\* The errors that save returns.
SaveErrors == {"NoKey", "NoRecipients", "EncryptError", "MkdirError", "WriteError", "RenameError"}

\* The outcomes the file system may still take.
Outcomes == IF faults < MaxFaults THEN SaveOutcomes ELSE {"ok"}

\* Whether some identity of the engine is a recipient of the state.
IdentityIsRecipient(e) ==
    \E i \in 1..Len(e.identities) : PublicOf(e.identities[i]) \in Range(e.state.recipients)

\* The host either works on the secrets of a vault (any name and value, the
\* recipients staying as configured) or manages the recipients of an age
\* vault (and then sets and deletes one secret only).
HostNames == IF scope = "secrets" THEN Names ELSE {<<"a">>}
HostValues == IF scope = "secrets" THEN SecretValues ELSE {<<118>>}
HostConfigs ==
    IF engine = "aes" THEN AesConfigs
    ELSE IF scope = "recipients" THEN AgeConfigs
    ELSE {c \in AgeConfigs : Len(c.recipients) <= 1}

Init ==
    /\ engine \in {"aes", "age"}
    /\ scope \in {"secrets", "recipients"}
    /\ scope = "recipients" => engine = "age"
    /\ phase = "none"
    /\ cfg = IF engine = "aes" THEN AesConfig(<<>>) ELSE AgeConfig(<<>>, <<>>)
    /\ v = NewEngine
    /\ fs = [file |-> NoFile, tmp |-> NoFile]
    /\ clock = 0
    /\ faults = 0
    /\ last = Call("none", "", Nil)
    /\ expect = <<>>
    /\ dirty = FALSE
    /\ closed = NotClosed
    /\ createdAt = 0
    /\ lastWritten = 0
    /\ crash = NoCrash
    /\ ConcIdle
    /\ NoApplication

\* The effect of a call of a mutating method whose functional result is r
\* (rOk is the result had the file system not failed).
Mutation(op, arg, r, rOk, now, out) ==
    /\ out = "ok" \/ r # rOk
    /\ clock' = now
    /\ faults' = IF out = "ok" THEN faults ELSE faults + 1
    /\ fs' = r.fs
    /\ last' = Call(op, arg, r.err)
    /\ lastWritten' = IF r.fs.file # fs.file THEN now ELSE lastWritten
    /\ IF r.err = Crashed
       THEN /\ phase' = "crashed"
            /\ v' = NewEngine
            /\ crash' = [kind |-> "crash", at |-> out, before |-> fs.file,
                         after |-> rOk.fs.file]
            /\ UNCHANGED dirty
       ELSE /\ phase' = phase
            /\ v' = r.v
            /\ crash' = NoCrash
            /\ dirty' = (dirty \/ r.err \in SaveErrors)
    /\ UNCHANGED <<engine, scope, cfg, closed, createdAt>>
    /\ UNCHANGED <<conc, fn, result, rand, mem, others>>

\* New(id, opts...): NewAES256Vault or NewAgeVault on the vault's path.
Open(c) ==
    /\ phase \in {"none", "closed", "crashed"}
    /\ \E now \in NowValues(clock), out \in Outcomes :
         \E now2 \in NowValues(now) :
           LET r == IF engine = "aes" THEN NewAES256Vault(c, fs, now, now2, out)
                    ELSE NewAgeVault(c, fs, now, now2, out)
               rOk == IF engine = "aes" THEN NewAES256Vault(c, fs, now, now2, "ok")
                      ELSE NewAgeVault(c, fs, now, now2, "ok")
           IN /\ out = "ok" \/ r # rOk
              /\ clock' = now2
              /\ faults' = IF out = "ok" THEN faults ELSE faults + 1
              /\ fs' = r.fs
              /\ last' = Call("Open", IF phase = "closed" /\ c = cfg THEN "reopen"
                                      ELSE IF phase = "crashed" /\ c = cfg THEN "recover"
                                      ELSE "open", r.err)
              /\ lastWritten' = IF r.fs.file # fs.file THEN now2 ELSE lastWritten
              /\ createdAt' = IF r.fs.file # fs.file THEN now ELSE createdAt
              /\ cfg' = IF r.err = Nil THEN c ELSE cfg
              /\ dirty' = FALSE
              /\ closed' = NotClosed
              /\ IF r.err = Crashed
                 THEN /\ phase' = "crashed"
                      /\ v' = NewEngine
                      /\ expect' = <<>>
                      /\ crash' = [kind |-> "crash", at |-> out, before |-> fs.file,
                                   after |-> rOk.fs.file]
                 ELSE IF r.err # Nil
                 THEN /\ phase' = "none"
                      /\ v' = NewEngine
                      /\ expect' = <<>>
                      /\ crash' = NoCrash
                 ELSE /\ phase' = "open"
                      /\ v' = r.v
                      /\ expect' = r.v.state.secrets
                      /\ crash' = NoCrash
    /\ UNCHANGED <<engine, scope>>
    /\ UNCHANGED <<conc, fn, result, rand, mem, others>>

SetSecret(key, value) ==
    /\ phase = "open"
    /\ \E now \in NowValues(clock), out \in Outcomes :
         LET secret == NewSecretValue(value)
             r == IF engine = "aes" THEN AES256Vault_SetSecret(v, fs, key, secret, now, out)
                  ELSE AgeVault_SetSecret(v, fs, key, secret, now, out)
             rOk == IF engine = "aes" THEN AES256Vault_SetSecret(v, fs, key, secret, now, "ok")
                    ELSE AgeVault_SetSecret(v, fs, key, secret, now, "ok")
         IN /\ Mutation("SetSecret", "", r, rOk, now, out)
            /\ expect' = IF r.err = Nil THEN MapSet(expect, key, value) ELSE expect

DeleteSecret(key) ==
    /\ phase = "open"
    /\ \E now \in NowValues(clock), out \in Outcomes :
         LET r == IF engine = "aes" THEN AES256Vault_DeleteSecret(v, fs, key, now, out)
                  ELSE AgeVault_DeleteSecret(v, fs, key, now, out)
             rOk == IF engine = "aes" THEN AES256Vault_DeleteSecret(v, fs, key, now, "ok")
                    ELSE AgeVault_DeleteSecret(v, fs, key, now, "ok")
         IN /\ Mutation("DeleteSecret", "", r, rOk, now, out)
            /\ expect' = IF r.err = Nil THEN MapDelete(expect, key) ELSE expect

AddRecipientCall(publicKey) ==
    /\ phase = "open"
    /\ engine = "age"
    /\ scope = "recipients"
    /\ \E now \in NowValues(clock), out \in Outcomes :
         /\ Mutation("AddRecipient", publicKey,
                     AddRecipient(v, fs, publicKey, now, out),
                     AddRecipient(v, fs, publicKey, now, "ok"), now, out)
         /\ UNCHANGED expect

RemoveRecipientCall(publicKey) ==
    /\ phase = "open"
    /\ engine = "age"
    /\ scope = "recipients"
    /\ \E now \in NowValues(clock), out \in Outcomes :
         /\ Mutation("RemoveRecipient", publicKey,
                     RemoveRecipient(v, fs, publicKey, now, out),
                     RemoveRecipient(v, fs, publicKey, now, "ok"), now, out)
         /\ UNCHANGED expect

Close ==
    /\ phase = "open"
    /\ phase' = "closed"
    /\ v' = IF engine = "aes" THEN AES256Vault_Close(v) ELSE AgeVault_Close(v)
    /\ last' = Call("Close", "", Nil)
    /\ closed' = [kind |-> "closed",
                  secrets |-> v.state.secrets,
                  lastModified |-> v.state.lastModified.wall,
                  clean |-> ~dirty,
                  authorized |-> (engine = "aes" \/ IdentityIsRecipient(v))]
    /\ crash' = NoCrash
    /\ UNCHANGED <<engine, scope, cfg, fs, clock, faults, expect, dirty, createdAt, lastWritten>>
    /\ UNCHANGED <<conc, fn, result, rand, mem, others>>

Next ==
    \/ \E c \in HostConfigs : Open(c)
    \/ \E key \in HostNames, value \in HostValues : SetSecret(key, value)
    \/ \E key \in HostNames : DeleteSecret(key)
    \/ \E publicKey \in AgeRecipients \cup {MalformedRecipient} : AddRecipientCall(publicKey)
    \/ \E publicKey \in AgeRecipients \cup {MalformedRecipient} : RemoveRecipientCall(publicKey)
    \/ Close

Spec == Init /\ [][Next]_vars

\* ------------------------------------------- goroutines on one engine object
\* The values the goroutines store.
ConcValues == {<<118>>, <<119>>}

\* The methods that take the write lock (v.mu.Lock) / the read lock (v.mu.RLock).
MutatingOps == {"SetSecret", "DeleteSecret", "Close", "AddRecipient", "RemoveRecipient"}
ReadingOps == {"GetSecret", "HasSecret", "ListSecrets", "Metadata", "ListRecipients"}

\* A locking where SetSecret takes the read lock.
LockKind_sharedSet(op) == IF op \in MutatingOps \ {"SetSecret"} THEN "Lock" ELSE "RLock"

\* The lock a method takes in its first statement.
LockKind(op) == IF op \in MutatingOps THEN "Lock" ELSE "RLock"

\* A mutex that never makes a writer wait for another writer.
WriterFree_always(m) == TRUE

\* sync.RWMutex: Lock first takes the writers' mutex, which from then on keeps
\* new readers out too, and then waits for the readers inside to leave; RLock
\* waits while a writer holds or awaits the lock.
WriterFree(m) == m.writer = 0
ReadersGone(m) == m.readers = {}

\* The calls a goroutine may make.
Requests ==
    {[op |-> "SetSecret", key |-> k, value |-> x, pk |-> ""] : k \in ValidNames, x \in ConcValues}
    \cup {[op |-> o, key |-> <<"a">>, value |-> <<>>, pk |-> ""] :
            o \in {"DeleteSecret", "GetSecret", "HasSecret"}}
    \cup {[op |-> o, key |-> <<>>, value |-> <<>>, pk |-> ""] : o \in {"ListSecrets", "Close"}}
    \cup (IF engine = "aes"
          THEN {[op |-> "Metadata", key |-> <<>>, value |-> <<>>, pk |-> ""]}
          ELSE {[op |-> "ListRecipients", key |-> <<>>, value |-> <<>>, pk |-> ""],
                [op |-> "AddRecipient", key |-> <<>>, value |-> <<>>, pk |-> "pkB"],
                [op |-> "RemoveRecipient", key |-> <<>>, value |-> <<>>, pk |-> "pkA"]})

\* The configuration of the engine the goroutines share.
ConcConfig(e) ==
    IF e = "aes" THEN AesConfig(<<EnvSource("key1")>>)
    ELSE AgeConfig(<<EnvSource("idA")>>, <<"pkA">>)

\* The engine and the files after New on a fresh path.
ConcNew(e) ==
    IF e = "aes" THEN NewAES256Vault(ConcConfig(e), [file |-> NoFile, tmp |-> NoFile], 0, 0, "ok")
    ELSE NewAgeVault(ConcConfig(e), [file |-> NoFile, tmp |-> NoFile], 0, 0, "ok")

InitConc ==
    /\ engine \in {"aes", "age"}
    /\ scope = "goroutines"
    /\ phase = "open"
    /\ cfg = ConcConfig(engine)
    /\ v = ConcNew(engine).v
    /\ fs = ConcNew(engine).fs
    /\ clock = 0
    /\ faults = 0
    /\ last = Call("Open", "open", Nil)
    /\ expect = <<>>
    /\ dirty = FALSE
    /\ closed = NotClosed
    /\ createdAt = 0
    /\ lastWritten = 0
    /\ crash = NoCrash
    /\ ConcIdle
    /\ NoApplication

\* Whether a goroutine is between taking and releasing the lock.
InCS(t) == pc[t] \in {"body", "save", "rename", "unlock"}

\* Whether the body of a method dereferences v.state (a nil pointer after
\* Close): Close assigns it and Metadata tests it first.
Dereferences(op) == op \notin {"Close", "Metadata"}

\* What the part of a mutating method before save does to the engine.
Update(r) ==
    CASE r.op = "SetSecret" -> SetSecret_update(v, r.key, NewSecretValue(r.value))
      [] r.op = "DeleteSecret" -> DeleteSecret_update(v, r.key)
      [] r.op = "AddRecipient" -> AddRecipient_update(v, r.pk)
      [] r.op = "RemoveRecipient" -> RemoveRecipient_update(v, r.pk)
      [] OTHER -> [v |-> IF engine = "aes" THEN AES256Vault_Close(v) ELSE AgeVault_Close(v),
                   err |-> Nil]

\* The error a reading method returns.
ReadError(r) ==
    CASE r.op = "GetSecret" -> GetSecret(v, r.key).err
      [] r.op = "HasSecret" -> HasSecret(v, r.key).err
      [] OTHER -> Nil

\* A goroutine calls a method of the engine.
Invoke(t, r) ==
    /\ phase = "open"
    /\ pc[t] = "idle"
    /\ calls < MaxCalls
    /\ pc' = [pc EXCEPT ![t] = "lock"]
    /\ req' = [req EXCEPT ![t] = r]
    /\ calls' = calls + 1
    /\ pure' = (pure /\ r.op \in {"SetSecret", "ListSecrets"})
    /\ UNCHANGED <<engine, phase, v, fs, clock, mu, ret, order, listed>>
    /\ UNCHANGED <<host, fn, result, rand, mem, others>>

\* v.mu.Lock(), its first half: the goroutine becomes the writer.
Lock(t) ==
    /\ phase = "open"
    /\ pc[t] = "lock"
    /\ LockKind(req[t].op) = "Lock"
    /\ WriterFree(mu)
    /\ mu' = [mu EXCEPT !.writer = t]
    /\ pc' = [pc EXCEPT ![t] = "wait"]
    /\ UNCHANGED <<engine, phase, v, fs, clock, req, ret, order, listed, calls, pure>>
    /\ UNCHANGED <<host, fn, result, rand, mem, others>>

\* v.mu.Lock(), its second half: the readers have left.
LockEnter(t) ==
    /\ phase = "open"
    /\ pc[t] = "wait"
    /\ ReadersGone(mu)
    /\ pc' = [pc EXCEPT ![t] = "body"]
    /\ UNCHANGED <<engine, phase, v, fs, clock, req, mu, ret, order, listed, calls, pure>>
    /\ UNCHANGED <<host, fn, result, rand, mem, others>>

\* v.mu.RLock().
RLock(t) ==
    /\ phase = "open"
    /\ pc[t] = "lock"
    /\ LockKind(req[t].op) = "RLock"
    /\ WriterFree(mu)
    /\ mu' = [mu EXCEPT !.readers = @ \cup {t}]
    /\ pc' = [pc EXCEPT ![t] = "body"]
    /\ UNCHANGED <<engine, phase, v, fs, clock, req, ret, order, listed, calls, pure>>
    /\ UNCHANGED <<host, fn, result, rand, mem, others>>

\* The body of a method meets the nil state that Close left: the goroutine
\* panics and the process ends.
Panic(t) ==
    /\ phase = "open"
    /\ pc[t] = "body"
    /\ v.state = NilState
    /\ Dereferences(req[t].op)
    /\ phase' = "crashed"
    /\ pc' = [pc EXCEPT ![t] = "panic"]
    /\ UNCHANGED <<engine, v, fs, clock, req, mu, ret, order, listed, calls, pure>>
    /\ UNCHANGED <<host, fn, result, rand, mem, others>>

\* The body of a reading method.
Read(t) ==
    /\ phase = "open"
    /\ pc[t] = "body"
    /\ req[t].op \in ReadingOps
    /\ ~(v.state = NilState /\ Dereferences(req[t].op))
    /\ ret' = [ret EXCEPT ![t] = ReadError(req[t])]
    /\ listed' = IF req[t].op = "ListSecrets"
                 THEN listed \cup {[keys |-> Range(l), at |-> Len(order)] : l \in ListSecrets(v)}
                 ELSE listed
    /\ pc' = [pc EXCEPT ![t] = "unlock"]
    /\ UNCHANGED <<engine, phase, v, fs, clock, req, mu, order, calls, pure>>
    /\ UNCHANGED <<host, fn, result, rand, mem, others>>

\* The body of a mutating method up to its call of save.
Write(t) ==
    /\ phase = "open"
    /\ pc[t] = "body"
    /\ req[t].op \in MutatingOps
    /\ ~(v.state = NilState /\ Dereferences(req[t].op))
    /\ LET u == Update(req[t])
       IN /\ v' = u.v
          /\ ret' = [ret EXCEPT ![t] = u.err]
          /\ pc' = [pc EXCEPT ![t] = IF u.err # Nil \/ req[t].op = "Close"
                                     THEN "unlock" ELSE "save"]
          /\ order' = IF u.err = Nil /\ req[t].op = "SetSecret"
                      THEN Append(order, [t |-> t, key |-> req[t].key, value |-> req[t].value,
                                          contended |-> \E o \in Thread : pc[o] \in {"lock", "wait"}])
                      ELSE order
    /\ UNCHANGED <<engine, phase, fs, clock, req, mu, listed, calls, pure>>
    /\ UNCHANGED <<host, fn, result, rand, mem, others>>

\* save up to os.WriteFile of the temp file.
Save(t) ==
    /\ phase = "open"
    /\ pc[t] = "save"
    /\ \E now \in NowValues(clock) :
         LET s == IF engine = "aes" THEN AES256Vault_seal(v, now) ELSE AgeVault_seal(v, now)
         IN /\ clock' = now
            /\ v' = s.v
            /\ ret' = [ret EXCEPT ![t] = s.err]
            /\ IF s.skip \/ s.err # Nil
               THEN /\ pc' = [pc EXCEPT ![t] = "unlock"]
                    /\ fs' = fs
               ELSE /\ pc' = [pc EXCEPT ![t] = "rename"]
                    /\ fs' = WriteFile(fs, s.data)
    /\ UNCHANGED <<engine, phase, req, mu, order, listed, calls, pure>>
    /\ UNCHANGED <<host, fn, result, rand, mem, others>>

\* save from os.Rename on.
Replace(t) ==
    /\ phase = "open"
    /\ pc[t] = "rename"
    /\ fs' = Rename(fs).fs
    /\ ret' = [ret EXCEPT ![t] = Rename(fs).err]
    /\ pc' = [pc EXCEPT ![t] = "unlock"]
    /\ UNCHANGED <<engine, phase, v, clock, req, mu, order, listed, calls, pure>>
    /\ UNCHANGED <<host, fn, result, rand, mem, others>>

\* The deferred v.mu.Unlock() / v.mu.RUnlock(), and the return of the call.
Unlock(t) ==
    /\ phase = "open"
    /\ pc[t] = "unlock"
    /\ mu' = IF LockKind(req[t].op) = "Lock" THEN [mu EXCEPT !.writer = 0]
             ELSE [mu EXCEPT !.readers = @ \ {t}]
    /\ pc' = [pc EXCEPT ![t] = "idle"]
    /\ UNCHANGED <<engine, phase, v, fs, clock, req, ret, order, listed, calls, pure>>
    /\ UNCHANGED <<host, fn, result, rand, mem, others>>

NextConc ==
    \/ \E t \in Thread, r \in Requests : Invoke(t, r)
    \/ \E t \in Thread : Lock(t)
    \/ \E t \in Thread : LockEnter(t)
    \/ \E t \in Thread : RLock(t)
    \/ \E t \in Thread : Panic(t)
    \/ \E t \in Thread : Read(t)
    \/ \E t \in Thread : Write(t)
    \/ \E t \in Thread : Save(t)
    \/ \E t \in Thread : Replace(t)
    \/ \E t \in Thread : Unlock(t)

\* The scheduler runs some goroutine that can take a step.
SpecConc == InitConc /\ [][NextConc]_vars /\ WF_vars(NextConc)

\* --------------------------------------------- the resolvers on their own
\* The key sources a configuration may name: variables that are unset, hold
\* a key, a malformed key or a key followed by a blank; files that cannot be
\* read, are blank, or hold a key, with or without a blank after it.
KeySources ==
    {EnvSource(""), EnvSource("key1"), EnvSource("key2"), EnvSource(MalformedKey),
     EnvSource("key1 "), FileSource(""), FileSource(" "), FileSource("key1 "),
     FileSource("key2")}

\* The identity sources a configuration may name.
IdentitySources ==
    {EnvSource(""), EnvSource("idA"), EnvSource("idB"), EnvSource("not-an-identity"),
     EnvSource("idA "), FileSource(""), FileSource("not-an-identity"), FileSource("idA "),
     FileSource("idB")}

\* The lists of at most MaxSources sources out of S.
SourceLists(S) == UNION {[1..n -> S] : n \in 0..MaxSources}

\* The data TryDecrypt is given: a text sealed under a key, or no sealed
\* message at all.
Ciphertexts == {EncryptValue(k, "test secret data").out : k \in AesKeys} \cup {Partial}

InitResolve ==
    /\ engine = "aes"
    /\ scope = "functions"
    /\ phase = "none"
    /\ cfg = AesConfig(<<>>)
    /\ v = NewEngine
    /\ fs = [file |-> NoFile, tmp |-> NoFile]
    /\ clock = 0
    /\ faults = 0
    /\ last = Call("none", "", Nil)
    /\ expect = <<>>
    /\ dirty = FALSE
    /\ closed = NotClosed
    /\ createdAt = 0
    /\ lastWritten = 0
    /\ crash = NoCrash
    /\ ConcIdle
    /\ NoApplication

\* NewKeyResolver(sources).ResolveKeys().
ApplyResolveKeys(sources, defaultValue) ==
    /\ fn.op = "none"
    /\ fn' = [op |-> "ResolveKeys", sources |-> sources, defaultValue |-> defaultValue]
    /\ result' = ResolveKeys(NewResolver(sources, defaultValue))
    /\ UNCHANGED <<engine, phase, v, fs, clock, host, conc, others, rand, mem>>

\* NewKeyResolver(sources).TryDecrypt(encryptedData).
ApplyTryDecrypt(sources, defaultValue, encryptedData) ==
    /\ fn.op = "none"
    /\ fn' = [op |-> "TryDecrypt", sources |-> sources, defaultValue |-> defaultValue,
              data |-> encryptedData]
    /\ result' = TryDecrypt(NewResolver(sources, defaultValue), encryptedData)
    /\ UNCHANGED <<engine, phase, v, fs, clock, host, conc, others, rand, mem>>

\* NewIdentityResolver(sources).ResolveIdentities().
ApplyResolveIdentities(sources, defaultValue) ==
    /\ fn.op = "none"
    /\ fn' = [op |-> "ResolveIdentities", sources |-> sources, defaultValue |-> defaultValue]
    /\ result' = ResolveIdentities(NewResolver(sources, defaultValue))
    /\ UNCHANGED <<engine, phase, v, fs, clock, host, conc, others, rand, mem>>

NextResolve ==
    \/ \E sources \in SourceLists(KeySources), d \in {"", "key1"} :
          ApplyResolveKeys(sources, d)
    \/ \E sources \in SourceLists(KeySources), d \in {"", "key1"}, data \in Ciphertexts :
          ApplyTryDecrypt(sources, d, data)
    \/ \E sources \in SourceLists(IdentitySources), d \in {"", "idA"} :
          ApplyResolveIdentities(sources, d)

SpecResolve == InitResolve /\ [][NextResolve]_vars

\* ------------------------------------------------ opening what is on disk
\* Versions of the schema other than the current one (0: no version field).
OtherVersions == {0, 2}

\* A state as some release of the package wrote it.
StoredState(e, version) ==
    [kind |-> "state",
     version |-> version,
     created |-> TimeParsed(0),
     lastModified |-> TimeParsed(0),
     recipients |-> IF e = "age" THEN <<"pkA">> ELSE <<>>,
     secrets |-> MapSet(<<>>, <<"a">>, <<118>>)]

\* The texts a file at the vault's path may hold under its encryption.
StoredTexts(e) ==
    {IF e = "age" THEN JsonMarshal(StoredState(e, n)) ELSE YamlMarshal(StoredState(e, n)) :
        n \in {aesCurrentVaultVersion} \cup OtherVersions}
    \cup {NotADocument}

\* What may be at the vault's path before the first open: nothing, bytes
\* that are no ciphertext, or a text sealed for a key or a recipient.
ExistingFiles(e) ==
    {NoFile, Partial}
    \cup IF e = "age"
         THEN {AgeEncrypt(<<pk>>, t) : pk \in AgeRecipients, t \in StoredTexts(e)}
         ELSE {EncryptValue(k, t).out : k \in AesKeys, t \in StoredTexts(e)}

InitOpen ==
    /\ engine \in {"aes", "age"}
    /\ scope = "open"
    /\ phase = "none"
    /\ cfg = IF engine = "aes" THEN AesConfig(<<>>) ELSE AgeConfig(<<>>, <<>>)
    /\ v = NewEngine
    /\ fs \in {[file |-> f, tmp |-> NoFile] : f \in ExistingFiles(engine)}
    /\ clock = 0
    /\ faults = 0
    /\ last = Call("none", "", Nil)
    /\ expect = <<>>
    /\ dirty = FALSE
    /\ closed = NotClosed
    /\ createdAt = 0
    /\ lastWritten = 0
    /\ crash = NoCrash
    /\ ConcIdle
    /\ NoApplication

\* The methods that only read the engine.
ReadOps == {"ID", "Metadata", "GetSecret", "HasSecret", "ListSecrets", "ListRecipients"}

\* A call of a reading method on the open engine: none of them assigns to
\* a field of the engine or touches the file system.
ReadCall(op, key) ==
    /\ phase = "open"
    /\ op = "ListRecipients" => engine = "age"
    /\ last' = Call(op, "", IF op = "GetSecret" THEN GetSecret(v, key).err ELSE Nil)
    /\ UNCHANGED <<engine, scope, phase, cfg, v, fs, clock, faults>>
    /\ UNCHANGED <<expect, dirty, closed, createdAt, lastWritten, crash>>
    /\ UNCHANGED <<conc, fn, result, rand, mem, others>>

\* Close on an engine that is closed already.
CloseAgain ==
    /\ phase = "closed"
    /\ v' = IF engine = "aes" THEN AES256Vault_Close(v) ELSE AgeVault_Close(v)
    /\ last' = Call("Close", "again", Nil)
    /\ UNCHANGED <<engine, scope, phase, cfg, fs, clock, faults>>
    /\ UNCHANGED <<expect, dirty, closed, createdAt, lastWritten, crash>>
    /\ UNCHANGED <<conc, fn, result, rand, mem, others>>

NextOpen ==
    \/ \E c \in HostConfigs : Open(c)
    \/ \E key \in HostNames, value \in HostValues : SetSecret(key, value)
    \/ Close
    \/ \E op \in ReadOps, key \in HostNames : ReadCall(op, key)
    \/ CloseAgain

SpecOpen == InitOpen /\ [][NextOpen]_vars

\* ------------------------------------------------------- package crypto
\* The functions of package crypto on byte strings. A byte string or a Go
\* string is its length and what it holds; []byte(s) and string(b) keep both.
MaxRand == 3

\* 64*1024*1024, the longest plaintext EncryptValue takes; the sizes of the
\* GCM nonce and tag; the size of generated keys and salts.
MaxPlaintext == 67108864
NonceSize == 12
TagSize == 16
KeySize == 32

Bytes(len, body) == [len |-> len, body |-> body]
Label(name) == [form |-> "label", name |-> name]

\* A nil slice, and the empty string.
NilBytes == Bytes(0, [form |-> "nil"])
EmptyString == Bytes(0, Label(""))

\* The n bytes that the next read of crypto/rand yields: rand.Reader is
\* taken to be ideal, no two reads yield the same bytes.
RandRead(n, seq) == Bytes(n, [form |-> "random", seq |-> seq])

\* crypto.EncodeValue: base64.StdEncoding.EncodeToString.
EncodeValue(b) ==
    IF b.len = 0 THEN EmptyString
    ELSE Bytes(4 * ((b.len + 2) \div 3), [form |-> "b64", of |-> Bytes(b.len, b.body)])

\* crypto.DecodeValue: base64.StdEncoding.DecodeString.
DecodeValue(s) ==
    IF s.len = 0 THEN [err |-> Nil, data |-> Bytes(0, Label(""))]
    ELSE IF s.body.form = "b64" THEN [err |-> Nil, data |-> s.body.of]
    ELSE [err |-> "DecodeError", data |-> NilBytes]

\* aes.NewCipher: the key is 16, 24 or 32 bytes.
NewCipher(key) == IF key.len \in {16, 24, 32} THEN Nil ELSE "CipherError"

\* A Seal that does not put the nonce in front: gcm.Seal(nil, nonce, ...).
Seal_noPrefix(key, nonce, plaintext) ==
    Bytes(plaintext.len + TagSize,
          [form |-> "sealed", nonce |-> nonce,
           box |-> [key |-> key, nonce |-> nonce, plain |-> plaintext]])

\* gcm.Seal(nonce, nonce, plaintext, nil): the nonce, then the plaintext
\* sealed under the key and the nonce, then the tag.
Seal(key, nonce, plaintext) ==
    Bytes(nonce.len + plaintext.len + TagSize,
          [form |-> "sealed", nonce |-> nonce,
           box |-> [key |-> key, nonce |-> nonce, plain |-> plaintext]])

\* A gcm.Open that does not compare the key.
GcmOpen_anyKey(key, ciphertext) ==
    IF /\ ciphertext.body.form = "sealed"
       /\ ciphertext.len = NonceSize + ciphertext.body.box.plain.len + TagSize
       /\ ciphertext.body.box.nonce = ciphertext.body.nonce
    THEN [err |-> Nil, plaintext |-> ciphertext.body.box.plain]
    ELSE [err |-> "OpenError", plaintext |-> NilBytes]

\* gcm.Open on ciphertext[nonceSize:] with the nonce ciphertext[:nonceSize]:
\* the bytes are a box and its tag, complete, sealed under this key and
\* this nonce.
GcmOpen(key, ciphertext) ==
    IF /\ ciphertext.body.form = "sealed"
       /\ ciphertext.len = NonceSize + ciphertext.body.box.plain.len + TagSize
       /\ ciphertext.body.box.nonce = ciphertext.body.nonce
       /\ ciphertext.body.box.key = key
    THEN [err |-> Nil, plaintext |-> ciphertext.body.box.plain]
    ELSE [err |-> "OpenError", plaintext |-> NilBytes]

\* An EncryptValue whose nonce is all zero.
CryptoEncryptValue_zeroNonce(encryptionKey, text, random) ==
    LET k == DecodeValue(encryptionKey)
    IN IF k.err # Nil THEN [err |-> k.err, out |-> EmptyString]
       ELSE IF NewCipher(k.data) # Nil THEN [err |-> NewCipher(k.data), out |-> EmptyString]
       ELSE IF text.len > MaxPlaintext THEN [err |-> "TooLong", out |-> EmptyString]
       ELSE [err |-> Nil, out |-> EncodeValue(Seal(k.data, Bytes(NonceSize, Label("zero")), text))]

\* crypto.EncryptValue, with the nonce that rand.Reader yields.
CryptoEncryptValue(encryptionKey, text, random) ==
    LET k == DecodeValue(encryptionKey)
    IN IF k.err # Nil THEN [err |-> k.err, out |-> EmptyString]
       ELSE IF NewCipher(k.data) # Nil THEN [err |-> NewCipher(k.data), out |-> EmptyString]
       ELSE IF text.len > MaxPlaintext THEN [err |-> "TooLong", out |-> EmptyString]
       ELSE [err |-> Nil, out |-> EncodeValue(Seal(k.data, random, text))]

\* crypto.DecryptValue.
CryptoDecryptValue(encryptionKey, text) ==
    LET k == DecodeValue(encryptionKey)
        c == DecodeValue(text)
    IN IF k.err # Nil THEN [err |-> k.err, out |-> EmptyString]
       ELSE IF NewCipher(k.data) # Nil THEN [err |-> NewCipher(k.data), out |-> EmptyString]
       ELSE IF c.err # Nil THEN [err |-> c.err, out |-> EmptyString]
       ELSE IF c.data.len < NonceSize THEN [err |-> "TooShort", out |-> EmptyString]
       ELSE LET o == GcmOpen(k.data, c.data)
            IN IF o.err # Nil THEN [err |-> o.err, out |-> EmptyString]
               ELSE [err |-> Nil, out |-> o.plaintext]

\* scrypt.Key(password, salt, 1048576, 8, 1, 32): a function of both.
ScryptKey(password, salt) ==
    Bytes(KeySize, [form |-> "scrypt", password |-> password, salt |-> Bytes(salt.len, salt.body)])

\* crypto.DeriveKey: a nil salt is replaced by 32 bytes of rand.Read.
DeriveKey(password, salt, random) ==
    LET s == IF salt = NilBytes THEN random ELSE salt
    IN [err |-> Nil, key |-> EncodeValue(ScryptKey(password, s)), salt |-> EncodeValue(s)]

\* []byte(s) of a string: a slice that is not nil, also when s is empty.
ByteSlice(s) == Bytes(s.len, s.body)

\* vault.DeriveEncryptionKey(passphrase, sal).
DeriveEncryptionKey(passphrase, sal, random) ==
    DeriveKey(ByteSlice(passphrase), ByteSlice(sal), random)

\* The keys the functions are given: two generated keys, a 16-byte key, a
\* key of a length AES does not take, a string that is not base64, and "".
GeneratedKeys == {EncodeValue(Bytes(KeySize, Label("k1"))), EncodeValue(Bytes(KeySize, Label("k2")))}
CryptoKeys ==
    GeneratedKeys \cup {EncodeValue(Bytes(16, Label("k3"))), EncodeValue(Bytes(5, Label("k4"))),
                        Bytes(11, Label("invalid-key")), EmptyString}

\* The plaintexts: empty, short, over 1KB, of the longest length taken and
\* one byte longer.
Plaintexts ==
    {EmptyString, Bytes(9, Label("same data")), Bytes(1015, Label("very long text")),
     Bytes(MaxPlaintext, Label("longest")), Bytes(MaxPlaintext + 1, Label("too long"))}

\* What can be made of an output of EncryptValue: cut within the nonce, cut
\* within the tag, with another nonce in front, with bytes of the box changed.
Alterations(s) ==
    LET c == DecodeValue(s).data
    IN {EncodeValue([c EXCEPT !.len = NonceSize - 1]),
        EncodeValue([c EXCEPT !.len = c.len - 1]),
        EncodeValue([c EXCEPT !.body.nonce = Bytes(NonceSize, Label("other nonce"))]),
        EncodeValue([c EXCEPT !.body.form = "altered"])}

\* Texts that no EncryptValue made: not base64, base64 of too few bytes,
\* base64 of enough bytes, and "".
ForeignTexts ==
    {Bytes(15, Label("invalid-base64!")), EncodeValue(Bytes(3, Label("abc"))),
     EncodeValue(Bytes(51, Label("invalid-ciphertext"))), EmptyString}

\* The texts DecryptValue is given after the last application.
DecryptInputs ==
    ForeignTexts \cup (IF fn.op = "EncryptValue" /\ result.err = Nil
                       THEN {result.out} \cup Alterations(result.out)
                       ELSE {})

\* The salts DeriveKey is given: nil, empty, 32 bytes, and the one the last
\* DeriveKey returned.
Salts ==
    {NilBytes, Bytes(0, Label("")), Bytes(KeySize, Label("s1"))}
      \cup (IF fn.op = "DeriveKey" THEN {DecodeValue(result.salt).data} ELSE {})

\* The salt strings DeriveEncryptionKey is given: "", a text, and the one
\* the last DeriveEncryptionKey returned for one of these.
GivenSaltStrings == {EmptyString, Bytes(4, Label("salt"))}
SaltStrings ==
    GivenSaltStrings
      \cup (IF fn.op = "DeriveEncryptionKey" /\ fn.salt \in GivenSaltStrings
            THEN {result.salt} ELSE {})

Passwords == {Bytes(8, Label("password")), Bytes(5, Label("other"))}

InitCrypto ==
    /\ engine = "aes"
    /\ scope = "crypto"
    /\ phase = "none"
    /\ cfg = AesConfig(<<>>)
    /\ v = NewEngine
    /\ fs = [file |-> NoFile, tmp |-> NoFile]
    /\ clock = 0
    /\ faults = 0
    /\ last = Call("none", "", Nil)
    /\ expect = <<>>
    /\ dirty = FALSE
    /\ closed = NotClosed
    /\ createdAt = 0
    /\ lastWritten = 0
    /\ crash = NoCrash
    /\ ConcIdle
    /\ NoApplication

\* crypto.EncryptValue(encryptionKey, text).
ApplyEncryptValue(encryptionKey, text) ==
    /\ rand < MaxRand
    /\ fn' = [op |-> "EncryptValue", key |-> encryptionKey, text |-> text]
    /\ result' = CryptoEncryptValue(encryptionKey, text, RandRead(NonceSize, rand))
    /\ rand' = IF result'.err = Nil THEN rand + 1 ELSE rand
    /\ UNCHANGED <<engine, phase, v, fs, clock, host, conc, others, mem>>

\* crypto.DecryptValue(encryptionKey, text).
ApplyDecryptValue(encryptionKey, text) ==
    /\ fn' = [op |-> "DecryptValue", key |-> encryptionKey, text |-> text]
    /\ result' = CryptoDecryptValue(encryptionKey, text)
    /\ UNCHANGED <<engine, phase, v, fs, clock, host, conc, others, rand, mem>>

\* crypto.DeriveKey(password, salt).
ApplyDeriveKey(password, salt) ==
    /\ rand < MaxRand
    /\ fn' = [op |-> "DeriveKey", password |-> password, salt |-> salt]
    /\ result' = DeriveKey(password, salt, RandRead(KeySize, rand))
    /\ rand' = IF salt = NilBytes THEN rand + 1 ELSE rand
    /\ UNCHANGED <<engine, phase, v, fs, clock, host, conc, others, mem>>

\* vault.DeriveEncryptionKey(passphrase, sal).
ApplyDeriveEncryptionKey(passphrase, sal) ==
    /\ rand < MaxRand
    /\ fn' = [op |-> "DeriveEncryptionKey", password |-> passphrase, salt |-> sal]
    /\ result' = DeriveEncryptionKey(passphrase, sal, RandRead(KeySize, rand))
    /\ rand' = IF ByteSlice(sal) = NilBytes THEN rand + 1 ELSE rand
    /\ UNCHANGED <<engine, phase, v, fs, clock, host, conc, others, mem>>

NextCrypto ==
    \/ \E k \in CryptoKeys, text \in Plaintexts : ApplyEncryptValue(k, text)
    \/ \E k \in CryptoKeys, text \in DecryptInputs : ApplyDecryptValue(k, text)
    \/ \E password \in Passwords, salt \in Salts : ApplyDeriveKey(password, salt)
    \/ \E passphrase \in Passwords, sal \in SaltStrings : ApplyDeriveEncryptionKey(passphrase, sal)

SpecCrypto == InitCrypto /\ [][NextCrypto]_vars

\* ------------------------------------------------------------ SecretValue
\* A byte slice is the address of its array in mem.heap; the caller holds
\* the slice it gave to NewSecretValue and the ones Bytes returned.
MaxAllocs == 4

\* make([]byte, len(b)) and copy: a new array with the bytes of b.
Alloc(heap, b) == [heap |-> Append(heap, b), addr |-> Len(heap) + 1]

\* A NewSecretValue that keeps the slice it is given.
NewSecretValueAt_noCopy(heap, value) == [heap |-> heap, secret |-> value]

\* NewSecretValue(value): the SecretValue holds a copy of the bytes.
NewSecretValueAt(heap, value) ==
    LET a == Alloc(heap, heap[value]) IN [heap |-> a.heap, secret |-> a.addr]

\* SecretValue.Bytes(): a copy of the bytes.
BytesAt(heap, secret) ==
    LET a == Alloc(heap, heap[secret]) IN [heap |-> a.heap, out |-> a.addr]

\* SecretValue.PlainTextString(): the bytes as a string.
PlainTextStringAt(heap, secret) == heap[secret]

\* The byte strings a caller makes a secret of, and the bytes it writes.
CallerValues == {<<>>, <<118>>, <<118, 255>>}
CallerBytes == {0, 120}

InitSecret ==
    /\ engine = "aes"
    /\ scope = "secret"
    /\ phase = "none"
    /\ cfg = AesConfig(<<>>)
    /\ v = NewEngine
    /\ fs = [file |-> NoFile, tmp |-> NoFile]
    /\ clock = 0
    /\ faults = 0
    /\ last = Call("none", "", Nil)
    /\ expect = <<>>
    /\ dirty = FALSE
    /\ closed = NotClosed
    /\ createdAt = 0
    /\ lastWritten = 0
    /\ crash = NoCrash
    /\ ConcIdle
    /\ NoApplication

\* The caller makes a slice of bytes and a SecretValue of it.
ApplyNewSecretValue(value) ==
    /\ mem.secret = 0
    /\ LET a == Alloc(mem.heap, value)
           n == NewSecretValueAt(a.heap, a.addr)
       IN mem' = [heap |-> n.heap, held |-> {a.addr}, secret |-> n.secret,
                  original |-> value]
    /\ fn' = [op |-> "NewSecretValue", value |-> value]
    /\ result' = [err |-> Nil]
    /\ UNCHANGED <<engine, phase, v, fs, clock, host, conc, others, rand>>

\* The caller calls Bytes() and keeps the slice.
ApplyBytes ==
    /\ mem.secret # 0
    /\ Len(mem.heap) < MaxAllocs
    /\ LET b == BytesAt(mem.heap, mem.secret)
       IN /\ mem' = [mem EXCEPT !.heap = b.heap, !.held = @ \cup {b.out}]
          /\ result' = [err |-> Nil, out |-> b.heap[b.out]]
    /\ fn' = [op |-> "Bytes"]
    /\ UNCHANGED <<engine, phase, v, fs, clock, host, conc, others, rand>>

\* The caller calls PlainTextString().
ApplyPlainTextString ==
    /\ mem.secret # 0
    /\ fn' = [op |-> "PlainTextString"]
    /\ result' = [err |-> Nil, out |-> PlainTextStringAt(mem.heap, mem.secret)]
    /\ UNCHANGED <<engine, phase, v, fs, clock, host, conc, others, rand, mem>>

\* The caller writes a byte into a slice it holds.
CallerWrites(slice, i, b) ==
    /\ slice \in mem.held
    /\ i \in 1..Len(mem.heap[slice])
    /\ mem' = [mem EXCEPT !.heap[slice][i] = b]
    /\ fn' = [op |-> "write", slice |-> slice]
    /\ result' = [err |-> Nil]
    /\ UNCHANGED <<engine, phase, v, fs, clock, host, conc, others, rand>>

NextSecret ==
    \/ \E value \in CallerValues : ApplyNewSecretValue(value)
    \/ ApplyBytes
    \/ ApplyPlainTextString
    \/ \E slice \in 1..MaxAllocs, i \in 1..2, b \in CallerBytes : CallerWrites(slice, i, b)

SpecSecret == InitSecret /\ [][NextSecret]_vars

\* ================================================================== claims
Mutators == {"SetSecret", "DeleteSecret", "AddRecipient", "RemoveRecipient"}

\* The state a complete vault file holds (NilState for no file).
PersistedState(f) == IF f.kind \in {"aes", "age"} THEN Unmarshal(f.plain) ELSE NilState

\* How often x occurs in the sequence s.
Count(s, x) == Cardinality({i \in 1..Len(s) : s[i] = x})

\* ----------------------------------------------------------------------- C1
\* C1: when the process dies inside a save, the vault file is a complete
\* ciphertext: the one it held before the call when the crash came before
\* the rename, the one being written when it came after; it is never a
\* partial write, and an open after the crash that finds the file loads the
\* state of one of these two.
C1_FileAfterCrash ==
    /\ fs.file # Partial
    /\ phase = "crashed" =>
         /\ crash.at # "crashAfterRename" => fs.file = crash.before
         /\ crash.at = "crashAfterRename" => fs.file = crash.after

C1_CrashLeavesValidFile ==
    /\ []C1_FileAfterCrash
    /\ [][(phase = "crashed" /\ last'.op = "Open" /\ last'.ret = Nil /\ fs.file # NoFile)
            => (v'.state = PersistedState(crash.before)
                \/ v'.state = PersistedState(crash.after))]_vars

\* A crash between the write of the temp file and the rename, on a vault
\* that had a file: the temp file is the new ciphertext, the vault file the old.
C1_Witness ==
    /\ phase = "crashed"
    /\ crash.at = "crashBeforeRename"
    /\ crash.before # NoFile
    /\ crash.after # crash.before
    /\ fs.tmp = crash.after
    /\ fs.file = crash.before

\* ----------------------------------------------------------------------- C2
\* C2: a call of SetSecret, DeleteSecret, AddRecipient or RemoveRecipient
\* that returns an error leaves the content of the vault file as it was.
C2_ErrorKeepsFile ==
    [][(last'.op \in Mutators /\ last'.ret \notin {Nil, Crashed}) => fs'.file = fs.file]_vars

\* A SetSecret that failed while writing the temp file of an existing vault.
C2_Witness ==
    /\ last.op = "SetSecret"
    /\ last.ret = "WriteError"
    /\ fs.tmp = Partial
    /\ fs.file # NoFile

\* ----------------------------------------------------------------------- C3
\* C3: on an open vault all of whose saves succeeded, a name whose latest
\* successful mutation is SetSecret(k, value) is returned by GetSecret with
\* that value, HasSecret is true and every ListSecrets result holds it once;
\* for every other name GetSecret and DeleteSecret fail with SecretNotFound,
\* HasSecret is false and no ListSecrets result holds it.
C3_DeleteFails(key) ==
    \A now \in NowValues(clock), out \in SaveOutcomes :
        (IF engine = "aes" THEN AES256Vault_DeleteSecret(v, fs, key, now, out)
         ELSE AgeVault_DeleteSecret(v, fs, key, now, out)).err = "SecretNotFound"

C3_CrudLifecycle ==
    (phase = "open" /\ ~dirty) =>
        \A key \in Names :
            IF key \in DOMAIN expect
            THEN /\ GetSecret(v, key).err = Nil
                 /\ PlainTextString(GetSecret(v, key).secret) = expect[key]
                 /\ HasSecret(v, key).exists
                 /\ \A l \in ListSecrets(v) : Count(l, key) = 1
            ELSE /\ GetSecret(v, key).err = "SecretNotFound"
                 /\ C3_DeleteFails(key)
                 /\ ~HasSecret(v, key).exists
                 /\ \A l \in ListSecrets(v) : Count(l, key) = 0

\* After a successful DeleteSecret that left another secret in place.
C3_Witness ==
    /\ phase = "open"
    /\ ~dirty
    /\ last.op = "DeleteSecret"
    /\ last.ret = Nil
    /\ Cardinality(DOMAIN expect) = 1

\* ----------------------------------------------------------------------- C4
\* C4: opening the vault again after Close, with the same configuration, in
\* a session all of whose saves succeeded and whose identity is a recipient,
\* succeeds and yields the secret map Close saw, created as init set it and
\* last-modified as written by the last save.
C4_ReopenRestores ==
    [][(last'.op = "Open" /\ last'.arg = "reopen" /\ closed.clean /\ closed.authorized)
         => /\ last'.ret = Nil
            /\ v'.state.secrets = closed.secrets
            /\ v'.state.created.wall = createdAt
            /\ v'.state.lastModified.wall = lastWritten]_vars

\* ----------------------------------------------------------------------- C5
\* The map after the SetSecret calls of o applied in sequence to m.
RECURSIVE ApplySets(_, _)
ApplySets(m, o) ==
    IF o = <<>> THEN m
    ELSE ApplySets(MapSet(m, Head(o).key, Head(o).value), Tail(o))

\* No goroutine is inside a call and none can start one.
AllReturned == calls = MaxCalls /\ \A t \in Thread : pc[t] = "idle"

\* While goroutines call only SetSecret (valid names) and ListSecrets: no call
\* fails, every ListSecrets result is the key set after the SetSecret calls
\* that took the lock before it, and with no call in flight the map in memory
\* and the map in the vault file are the SetSecret calls applied in the order
\* they took the lock.
C5_Linearized ==
    pure =>
      /\ \A t \in Thread : ret[t] = Nil
      /\ \A l \in listed : l.keys = DOMAIN ApplySets(<<>>, SubSeq(order, 1, l.at))
      /\ (\A t \in Thread : pc[t] = "idle") =>
           /\ v.state.secrets = ApplySets(<<>>, order)
           /\ PersistedState(fs.file).secrets = ApplySets(<<>>, order)

\* C5: concurrent SetSecret and ListSecrets calls on one engine behave as if
\* run one at a time in some order: every call returns, none fails, a
\* ListSecrets result is the key set at its place in that order, and in the
\* end memory and file hold all the SetSecret calls applied in that order (no
\* update is lost).
C5_ConcurrentSetList == [](C5_Linearized) /\ <>(AllReturned \/ ~pure)

\* Two goroutines have set the same name while one waited for the other's
\* lock, a ListSecrets has returned, and all calls have returned.
C5_Witness ==
    /\ pure
    /\ AllReturned
    /\ listed # {}
    /\ \E i, j \in 1..Len(order) :
         /\ i < j
         /\ order[i].t # order[j].t
         /\ order[i].key = order[j].key
         /\ order[i].value # order[j].value
         /\ order[i].contended

\* ----------------------------------------------------------------------- C6
\* C6: while a goroutine is between Lock and Unlock of a mutating method
\* (SetSecret, DeleteSecret, AddRecipient, RemoveRecipient, Close), no other
\* goroutine is between taking and releasing the lock, for writing or for
\* reading.
C6_MutualExclusion ==
    \A t, u \in Thread :
        (t # u /\ InCS(t) /\ req[t].op \in MutatingOps) => ~InCS(u)

\* Close is inside the lock while a reading call waits for it.
C6_Witness ==
    \E t, u \in Thread :
        /\ InCS(t) /\ req[t].op = "Close"
        /\ pc[u] = "lock" /\ req[u].op \in ReadingOps

\* ----------------------------------------------------------------------- C7
\* C7: an open AgeVault has at least one entry in its recipient list, and
\* RemoveRecipient of the only entry returns LastRecipient and changes
\* neither the list nor the vault file.
C7_ListNotEmpty ==
    (engine = "age" /\ phase = "open") => Len(v.state.recipients) >= 1

C7_LastRecipientKept ==
    /\ []C7_ListNotEmpty
    /\ [][(phase = "open" /\ last'.op = "RemoveRecipient"
           /\ v.state.recipients = <<last'.arg>>)
            => /\ last'.ret = "LastRecipient"
               /\ v'.state.recipients = v.state.recipients
               /\ fs'.file = fs.file]_vars

\* RemoveRecipient of the only entry was just rejected.
C7_Witness ==
    /\ phase = "open"
    /\ last.op = "RemoveRecipient"
    /\ last.ret = "LastRecipient"
    /\ v.state.recipients = <<last.arg>>

\* ----------------------------------------------------------------------- C8
\* C8: after a successful mutation of an AgeVault the vault file is
\* encrypted for exactly the entries of the recipient list (an identity
\* decrypts it if and only if its recipient is listed), and after a
\* successful RemoveRecipient the identity of the removed key cannot decrypt it.
C8_CanDecrypt(id) == AgeDecrypt(fs.file, <<id>>).err = Nil

C8_EncryptedForCurrent ==
    (engine = "age" /\ phase = "open" /\ last.op \in Mutators /\ last.ret = Nil) =>
        /\ \A id \in AgeIdentities :
               C8_CanDecrypt(id) <=> PublicOf(id) \in Range(ListRecipients(v))
        /\ last.op = "RemoveRecipient" =>
               \A id \in AgeIdentities : PublicOf(id) = last.arg => ~C8_CanDecrypt(id)

\* ----------------------------------------------------------------------- C9
\* C9: RemoveRecipient of a key that is not in the list returns
\* RecipientNotFound, whatever the length of the list, and leaves the list
\* as it was; LastRecipient is returned only for the only entry of the list.
C9_AbsentIsNotFound ==
    [][(phase = "open" /\ last'.op = "RemoveRecipient")
         => /\ last'.arg \notin Range(v.state.recipients)
                => /\ last'.ret = "RecipientNotFound"
                   /\ v'.state.recipients = v.state.recipients
            /\ last'.ret = "LastRecipient" => v.state.recipients = <<last'.arg>>]_vars

\* ---------------------------------------------------------------------- C10
\* C10: no public key occurs twice in the recipient list of an open AgeVault.
C10_NoDuplicateRecipients ==
    (engine = "age" /\ phase = "open") =>
        \A pk \in Range(v.state.recipients) : Count(v.state.recipients, pk) = 1

C12_Keys ==
    LET srcs == NewResolver(fn.sources, fn.defaultValue)
    IN SelectSeq([i \in 1..Len(srcs) |-> KeyFrom(srcs[i])], LAMBDA k : k # "")

C12_Decrypting == {i \in 1..Len(C12_Keys) : DecryptValue(C12_Keys[i], fn.data).err = Nil}

\* C12: TryDecrypt returns the plaintext and the first key, in source order,
\* that decrypts the data; it fails with DecryptionFailed exactly when keys
\* were resolved and none of them decrypts.
C12_FirstKeyThatDecrypts ==
    fn.op = "TryDecrypt" =>
        /\ C12_Decrypting # {} =>
             /\ result.err = Nil
             /\ \E i \in C12_Decrypting :
                  /\ \A j \in C12_Decrypting : i <= j
                  /\ result.key = C12_Keys[i]
             /\ result.data = fn.data.plain
        /\ result.err = "DecryptionFailed" <=> (Len(C12_Keys) >= 1 /\ C12_Decrypting = {})

\* Sources [bad, good]: the second key decrypted.
C12_Witness ==
    /\ fn.op = "TryDecrypt"
    /\ Len(C12_Keys) = 2
    /\ C12_Decrypting = {2}
    /\ result.err = Nil
    /\ result.key = C12_Keys[2]

\* ---------------------------------------------------------------------- C13
\* The keys a configuration resolves to, and the first of them that decrypts f.
C13_Keys(c) == SelectSeq([i \in 1..Len(c.keySource) |-> KeyFrom(c.keySource[i])],
                         LAMBDA k : k # "")

C13_FirstDecrypting(c, f) ==
    LET ok == {i \in 1..Len(C13_Keys(c)) : DecryptValue(C13_Keys(c)[i], f).err = Nil}
    IN IF ok = {} THEN "" ELSE C13_Keys(c)[CHOOSE i \in ok : \A j \in ok : i <= j]

\* The vault file of an open AES256Vault is sealed under its active key.
C13_FileUnderActiveKey ==
    (engine = "aes" /\ phase = "open") =>
        /\ DecryptValue(v.dek, fs.file).err = Nil
        /\ \A k \in AesKeys \ {v.dek} : DecryptValue(k, fs.file).err # Nil

\* C13: an AES256Vault opened on an existing file has as its active key the
\* first key, in resolution order, that decrypts the file; the key stays the
\* same while the vault is open, and after every mutation the file is
\* decryptable with that key and with no other.
C13_ActiveKeyIsDecryptingKey ==
    /\ []C13_FileUnderActiveKey
    /\ [][(engine = "aes" /\ last'.op = "Open" /\ last'.ret = Nil /\ fs.file # NoFile)
            => v'.dek = C13_FirstDecrypting(cfg', fs.file)]_vars
    /\ [][(engine = "aes" /\ phase = "open" /\ phase' = "open") => v'.dek = v.dek]_vars

\* Opened with sources [wrong, right] on a file under the right key, then a
\* successful SetSecret.
C13_Witness ==
    /\ engine = "aes"
    /\ phase = "open"
    /\ C13_Keys(cfg) = <<"key2", "key1">>
    /\ v.dek = "key1"
    /\ last.op = "SetSecret"
    /\ last.ret = Nil
    /\ DecryptValue("key1", fs.file).err = Nil

\* ---------------------------------------------------------------------- C14
\* The identities that the sources of a ResolveIdentities call hold.
C14_Usable ==
    LET srcs == NewResolver(fn.sources, fn.defaultValue)
    IN SelectSeq([i \in 1..Len(srcs) |-> KeyFrom(srcs[i])], LAMBDA k : k \in AgeIdentities)

\* C14: ResolveIdentities skips every source, env or file, that yields no
\* identity and returns the identities of the others in source order; it
\* fails, with NoAccess, only when no source yields an identity.
C14_SkipsUnusableSources ==
    fn.op = "ResolveIdentities" =>
        IF C14_Usable = <<>> THEN result.err = "NoAccess"
        ELSE result.err = Nil /\ result.ids = C14_Usable

\* ---------------------------------------------------------------------- C15
\* The sources a ResolveKeys call reads (the default variable when none is
\* configured) and the places of those that yield a key.
C15_Sources == IF fn.sources = <<>> THEN <<EnvSource(fn.defaultValue)>> ELSE fn.sources

C15_Yielding == {i \in 1..Len(C15_Sources) : KeyFrom(C15_Sources[i]) # ""}

\* C15: ResolveKeys returns the keys of the sources that yield a non-empty
\* value, one per such source and in the order of the sources; it fails, with
\* NoAccess, exactly when no source yields a key; without configured sources
\* it reads the default environment variable.
C15_KeysInSourceOrder ==
    fn.op = "ResolveKeys" =>
        /\ result.err = "NoAccess" <=> C15_Yielding = {}
        /\ result.err \in {Nil, "NoAccess"}
        /\ Len(result.keys) = Cardinality(C15_Yielding)
        /\ \A i \in C15_Yielding :
             result.keys[Cardinality({j \in C15_Yielding : j <= i})] = KeyFrom(C15_Sources[i])

\* An unset variable was skipped and the key of the file after it returned.
C15_Witness ==
    /\ fn.op = "ResolveKeys"
    /\ Len(fn.sources) = 2
    /\ fn.sources[1] = EnvSource("")
    /\ fn.sources[2].type = "file"
    /\ result.err = Nil
    /\ result.keys = <<"key1">>

\* ---------------------------------------------------------------------- C16
\* Whether some key or identity that configuration c resolves to decrypts
\* file f, and whether the text inside parses.
C16_Decrypts(c, f) ==
    IF engine = "aes"
    THEN \E i \in 1..Len(C13_Keys(c)) : DecryptValue(C13_Keys(c)[i], f).err = Nil
    ELSE /\ f.kind = "age"
         /\ \E i \in 1..Len(c.identitySources) :
              /\ KeyFrom(c.identitySources[i]) \in AgeIdentities
              /\ PublicOf(KeyFrom(c.identitySources[i])) \in f.rcpts

C16_Parses(f) == f.kind \in {"aes", "age"} /\ f.plain.syntax # "text"

\* The constructor on configuration c and the files as they are.
C16_New(c, now, out) ==
    IF engine = "aes" THEN NewAES256Vault(c, fs, now, now, out)
    ELSE NewAgeVault(c, fs, now, now, out)

\* Whatever the configuration, the constructor fails on an existing file
\* that the configuration cannot decrypt or whose text does not parse, and
\* returns no engine and the files as they were.
C16_UnreadableIsFatal ==
    \A c \in HostConfigs, now \in NowValues(clock), out \in SaveOutcomes :
        (fs.file # NoFile /\ ~(C16_Decrypts(c, fs.file) /\ C16_Parses(fs.file))) =>
            /\ C16_New(c, now, out).err \notin {Nil, Crashed}
            /\ C16_New(c, now, out).v = NewEngine
            /\ C16_New(c, now, out).fs = fs

\* C16: opening a vault whose existing file cannot be decrypted, or whose
\* decrypted text does not parse, fails and returns no engine; an open that
\* fails on an existing file leaves the file as it was.
C16_FailedOpenKeepsFile ==
    /\ []C16_UnreadableIsFatal
    /\ [][(last'.op = "Open" /\ fs.file # NoFile /\ last'.ret # Nil)
            => /\ fs' = fs
               /\ phase' = "none"
               /\ v' = NewEngine]_vars

\* An open has just failed on a file that decrypts to a text that does not parse.
C16_Witness ==
    /\ last.op = "Open"
    /\ last.ret = "UnmarshalError"
    /\ phase = "none"
    /\ fs.file.kind \in {"aes", "age"}
    /\ fs.file.plain = NotADocument

\* ---------------------------------------------------------------------- C17
\* The schema version of the engine.
C17_CurrentVersion == IF engine = "aes" THEN aesCurrentVaultVersion ELSE ageCurrentVaultVersion

\* C17: an open of an existing vault file whose decrypted state has a
\* version other than the current one fails and returns no engine.
C17_VersionChecked ==
    [][(last'.op = "Open" /\ fs.file.kind \in {"aes", "age"}
        /\ fs.file.plain.syntax # "text"
        /\ fs.file.plain.version # C17_CurrentVersion)
         => (last'.ret # Nil /\ phase' # "open")]_vars

\* ---------------------------------------------------------------------- C18
\* C18: a successful open of an AES256Vault whose file is absent yields a
\* state with no secrets, with created and last-modified read from the clock
\* during the open, and a vault file that is the encryption of that state
\* under the first resolved key; ListSecrets returns the empty list.
C18_FreshVaultIsPersisted ==
    [][(engine = "aes" /\ last'.op = "Open" /\ last'.ret = Nil /\ fs.file = NoFile)
         => /\ v'.state.secrets = <<>>
            /\ ListSecrets(v') = {<<>>}
            /\ clock <= v'.state.created.wall
            /\ v'.state.created.wall <= v'.state.lastModified.wall
            /\ v'.state.lastModified.wall <= clock'
            /\ v'.state.version = aesCurrentVaultVersion
            /\ fs'.file = EncryptValue(C13_Keys(cfg')[1], YamlMarshal(v'.state)).out
            /\ fs'.tmp = NoFile]_vars

\* A vault just created with two resolved keys: the file is under the first.
C18_Witness ==
    /\ engine = "aes"
    /\ phase = "open"
    /\ last.op = "Open"
    /\ last.ret = Nil
    /\ lastWritten = clock
    /\ C13_Keys(cfg) = <<"key2", "key1">>
    /\ v.state.secrets = <<>>
    /\ DecryptValue("key2", fs.file).err = Nil

\* ---------------------------------------------------------------------- C19
\* C19: an open of an age vault with a configuration that lists no
\* recipients, with no fault injected, returns InvalidConfig and no engine,
\* and leaves the file system as it was.
C19_ZeroRecipientsIsInvalidConfig ==
    [][\A c \in AgeConfigs :
         (engine = "age" /\ c.recipients = <<>> /\ faults' = faults /\ Open(c))
           => (last'.ret = "InvalidConfig" /\ phase' # "open" /\ fs' = fs)]_vars

\* ---------------------------------------------------------------------- C20
\* Names the validation must accept and names it must reject, beyond the
\* ones the host passes to SetSecret.
C20_Accepted == ValidNames \cup {<<"a", ".", "b", "-", "c", "_", "9">>, <<"A">>, <<"-">>}
C20_Rejected == InvalidNames \cup {<<"b", "a", " ", "!">>, <<"a", "/", "b">>, <<" ">>}

\* SetSecret of the engine of this behaviour on its current state.
C20_SetSecret(key, value, now, out) ==
    IF engine = "aes" THEN AES256Vault_SetSecret(v, fs, key, NewSecretValue(value), now, out)
    ELSE AgeVault_SetSecret(v, fs, key, NewSecretValue(value), now, out)

\* C20: SetSecret with an empty name or a name with a character outside the
\* class fails with InvalidKey and changes neither the secret map,
\* last-modified nor the file; a name made of characters of the class is
\* never refused as InvalidKey; every key of the secret map of an open vault
\* is a valid name.
C20_OnlyValidNamesStored ==
    [][/\ (last'.op = "SetSecret" /\ last'.ret = "InvalidKey")
            => (v' = v /\ fs' = fs)
       /\ (phase = "open" /\ v.state # NilState)
            => \A key \in Names, value \in SecretValues :
                 /\ key \in InvalidNames
                      => \A out \in Outcomes :
                           C20_SetSecret(key, value, clock, out) = Result(v, fs, "InvalidKey")
                 /\ key \in ValidNames
                      => C20_SetSecret(key, value, clock, "ok").err # "InvalidKey"
       /\ \A n \in C20_Accepted : ValidateSecretKey(n) = Nil
       /\ \A n \in C20_Rejected : ValidateSecretKey(n) = "InvalidKey"
       /\ (phase' = "open" /\ v'.state # NilState)
            => \A k \in DOMAIN v'.state.secrets : k \in ValidNames]_vars

\* A SetSecret with an invalid name was refused on a vault that holds a
\* secret stored under a valid name.
C20_Witness ==
    /\ phase = "open"
    /\ last.op = "SetSecret"
    /\ last.ret = "InvalidKey"
    /\ v.state # NilState
    /\ DOMAIN v.state.secrets = {<<"a">>}

\* ---------------------------------------------------------------------- C21
\* C21: on an open vault, GetSecret, DeleteSecret and HasSecret with an
\* invalid name fail with InvalidKey.
C21_ReadsValidateNames ==
    (phase = "open" /\ v.state # NilState)
      => \A key \in InvalidNames :
           /\ GetSecret(v, key).err = "InvalidKey"
           /\ HasSecret(v, key).err = "InvalidKey"
           /\ DeleteSecret_update(v, key).err = "InvalidKey"

\* ---------------------------------------------------------------------- C22
\* The methods C22 names.
C22_Ops ==
    {"GetSecret", "SetSecret", "DeleteSecret", "HasSecret", "ListSecrets",
     "AddRecipient", "RemoveRecipient", "ListRecipients"}

\* C22: the body of a method called after Close returns an error to its
\* caller; the goroutine does not panic.
C22_ClosedEngineReturnsErrors ==
    [][\A t \in Thread :
         (pc[t] = "body" /\ v.state = NilState /\ req[t].op \in C22_Ops
          /\ pc'[t] # "body")
           => (pc'[t] # "panic" /\ ret'[t] # Nil)]_vars

\* ---------------------------------------------------------------------- C23
\* What a file may be: absent, the beginning of a ciphertext whose write was
\* cut short, or a ciphertext of a serialized state.
C23_OnlyCiphertext(f) ==
    /\ "kind" \in DOMAIN f
    /\ f.kind \in {"absent", "partial", "aes", "age"}
    /\ f.kind = "aes" => (f.key \in AesKeys /\ "syntax" \in DOMAIN f.plain)
    /\ f.kind = "age" => (f.rcpts # {} /\ "syntax" \in DOMAIN f.plain)

\* C23: the vault file and its temp sibling never hold plaintext, and after
\* a successful mutation the vault file is the ciphertext of the serialized
\* whole state of the engine.
C23_FilesAreCiphertext ==
    /\ C23_OnlyCiphertext(fs.file)
    /\ C23_OnlyCiphertext(fs.tmp)
    /\ (phase = "open" /\ last.op \in Mutators /\ last.ret = Nil)
         => fs.file.plain = (IF engine = "aes" THEN YamlMarshal(v.state)
                             ELSE JsonMarshal(v.state))

\* A file written by a SetSecret holds the secret inside a ciphertext.
C23_Witness ==
    /\ phase = "open"
    /\ last.op = "SetSecret"
    /\ last.ret = Nil
    /\ fs.file.kind \in {"aes", "age"}
    /\ <<"a">> \in DOMAIN fs.file.plain.secrets

\* ---------------------------------------------------------------------- C24
\* C24: created is never after last-modified; created does not change while
\* the engine is open and is the persisted one after a reopen; a successful
\* SetSecret or DeleteSecret sets last-modified to the time of the call; and
\* last-modified never decreases, in the engine and from a Close to the
\* reopen that follows it.
C24_MetadataMonotonic ==
    [][/\ (phase' = "open")
            => v'.state.created.wall <= v'.state.lastModified.wall
       /\ (phase = "open" /\ phase' = "open")
            => /\ v'.state.created = v.state.created
               /\ v'.state.lastModified.wall >= v.state.lastModified.wall
       /\ (last'.op \in {"SetSecret", "DeleteSecret"} /\ last'.ret = Nil)
            => v'.state.lastModified.wall = clock'
       /\ (last'.op = "Open" /\ last'.ret = Nil /\ fs.file.kind \in {"aes", "age"})
            => v'.state.created.wall = fs.file.plain.created
       /\ (last'.op = "Open" /\ last'.arg = "reopen" /\ last'.ret = Nil)
            => v'.state.lastModified.wall >= closed.lastModified]_vars

\* ---------------------------------------------------------------------- C25
\* The valid keys: the generated ones and a key of 16 bytes.
C25_ValidKeys == GeneratedKeys \cup {EncodeValue(Bytes(16, Label("k3")))}

\* C25 as stated: EncryptValue under a valid key succeeds on every plaintext, and
\* DecryptValue of its output under the same key succeeds and returns the
\* plaintext.
C25_RoundTrip ==
    [][/\ (fn'.op = "EncryptValue" /\ fn'.key \in C25_ValidKeys) => result'.err = Nil
       /\ (fn.op = "EncryptValue" /\ fn.key \in C25_ValidKeys
           /\ fn'.op = "DecryptValue" /\ fn'.key = fn.key /\ fn'.text = result.out)
            => (result'.err = Nil /\ result'.out = fn.text)]_vars

\* C25 amended: the same for the plaintexts of at most 64 MiB, the ones
\* EncryptValue takes; a longer plaintext is refused.
C25_RoundTripUpToLimit ==
    [][/\ (fn'.op = "EncryptValue" /\ fn'.key \in C25_ValidKeys
           /\ fn'.text.len <= MaxPlaintext) => result'.err = Nil
       /\ (fn.op = "EncryptValue" /\ fn.key \in C25_ValidKeys /\ fn.text.len <= MaxPlaintext
           /\ fn'.op = "DecryptValue" /\ fn'.key = fn.key /\ fn'.text = result.out)
            => (result'.err = Nil /\ result'.out = fn.text)]_vars

\* The empty plaintext came back from DecryptValue.
C25_Witness ==
    /\ fn.op = "DecryptValue"
    /\ fn.key \in C25_ValidKeys
    /\ result.err = Nil
    /\ result.out = EmptyString
    /\ DecodeValue(fn.text).data.len = NonceSize + TagSize

\* ---------------------------------------------------------------------- C26
\* C26: DecryptValue returns a plaintext only for a text that EncryptValue
\* returned, unaltered, under the same key, and then it is the plaintext
\* that was encrypted; with another or a malformed key, an altered or cut
\* ciphertext, or a text that is no base64, it fails and returns "".
C26_OnlyAuthenticated ==
    [][(fn'.op = "DecryptValue")
         => IF result'.err = Nil
            THEN /\ fn.op = "EncryptValue"
                 /\ result.err = Nil
                 /\ fn'.text = result.out
                 /\ fn'.key = fn.key
                 /\ result'.out = fn.text
            ELSE result'.out = EmptyString]_vars

\* DecryptValue refused the output of EncryptValue under another key.
C26_Witness ==
    /\ fn.op = "DecryptValue"
    /\ fn.key \in GeneratedKeys
    /\ fn.text.body.form = "b64"
    /\ fn.text.body.of.body.form = "sealed"
    /\ fn.text.body.of.len >= NonceSize + TagSize
    /\ fn.text.body.of.body.box.key # DecodeValue(fn.key).data
    /\ fn.text.body.of.body.box.nonce = fn.text.body.of.body.nonce
    /\ result.err = "OpenError"

\* ---------------------------------------------------------------------- C27
\* C27: every successful EncryptValue puts a nonce newly read from
\* crypto/rand in front of its output; two calls in a row with the same key
\* and plaintext return different texts, and each decrypts to the plaintext.
C27_FreshNonce ==
    [][(fn'.op = "EncryptValue" /\ result'.err = Nil)
         => /\ DecodeValue(result'.out).data.body.nonce = RandRead(NonceSize, rand)
            /\ rand' = rand + 1
            /\ CryptoDecryptValue(fn'.key, result'.out) = [err |-> Nil, out |-> fn'.text]
            /\ (fn.op = "EncryptValue" /\ result.err = Nil
                /\ fn'.key = fn.key /\ fn'.text = fn.text)
                 => /\ result'.out # result.out
                    /\ CryptoDecryptValue(fn.key, result.out) = [err |-> Nil, out |-> fn.text]]_vars

\* The same key and plaintext were encrypted a second time.
C27_Witness ==
    /\ fn.op = "EncryptValue"
    /\ fn.key \in GeneratedKeys
    /\ fn.text = Bytes(9, Label("same data"))
    /\ result.err = Nil
    /\ rand = 2
    /\ DecodeValue(result.out).data.body.nonce = RandRead(NonceSize, 1)

\* ---------------------------------------------------------------------- C28
\* Whether a call of DeriveKey or DeriveEncryptionKey supplies no salt.
C28_NoSalt(f) ==
    \/ f.op = "DeriveKey" /\ f.salt = NilBytes
    \/ f.op = "DeriveEncryptionKey" /\ f.salt = EmptyString

\* C28: a derivation without a salt returns the key together with 32 bytes
\* newly read from crypto/rand as the salt, and the same function given the
\* same password and the returned salt returns the same key.
C28_SaltGenerated ==
    [][/\ C28_NoSalt(fn')
            => /\ result'.err = Nil
               /\ result'.salt = EncodeValue(RandRead(KeySize, rand))
               /\ rand' = rand + 1
       /\ (C28_NoSalt(fn) /\ fn'.op = fn.op /\ fn'.password = fn.password
           /\ fn'.salt = (IF fn.op = "DeriveKey" THEN DecodeValue(result.salt).data
                          ELSE result.salt))
            => result'.key = result.key]_vars

\* ---------------------------------------------------------------------- C29
\* C29: whatever the caller writes into the slice it gave to NewSecretValue
\* or into a slice that Bytes() returned, PlainTextString() and Bytes()
\* return the bytes the SecretValue was made of.
C29_Isolated ==
    [][(fn'.op \in {"PlainTextString", "Bytes"}) => result'.out = mem.original]_vars

\* PlainTextString() was called after the caller overwrote a slice that
\* Bytes() had returned.
C29_Witness ==
    /\ fn.op = "PlainTextString"
    /\ mem.original = <<118, 255>>
    /\ \E a \in mem.held : a > 2 /\ mem.heap[a] # mem.original
    /\ mem.heap[1] # mem.original
    /\ result.out = mem.original

\* ---------------------------------------------------------------------- C30
\* C30: when a mutating method returns an error of persisting (encryption,
\* temp-file write or rename), the secret map, the recipient list and
\* last-modified of the engine are as before the call, and the engine's
\* state is the one the vault file holds.
C30_FailedSaveRollsBack ==
    [][(last'.op \in Mutators /\ last'.ret \in {"EncryptError", "WriteError", "RenameError"})
         => /\ v'.state.secrets = v.state.secrets
            /\ v'.state.recipients = v.state.recipients
            /\ v'.state.lastModified = v.state.lastModified
            /\ (fs'.file.kind \in {"aes", "age"} /\ ~dirty)
                 => /\ DOMAIN PersistedState(fs'.file).secrets = DOMAIN v'.state.secrets
                    /\ PersistedState(fs'.file).recipients = v'.state.recipients
                    /\ TimeEqual(PersistedState(fs'.file).lastModified, Metadata(v').lastModified)]_vars

\* ---------------------------------------------------------------------- C35
\* C35: an AddRecipient of a key that is already in the recipient list
\* leaves the vault file and last-modified as they were.
C35_AddPresentDoesNotPersist ==
    [][(last'.op = "AddRecipient" /\ last'.ret = Nil
        /\ last'.arg \in Range(v.state.recipients))
         => (fs' = fs /\ v'.state.lastModified = v.state.lastModified)]_vars

\* ---------------------------------------------------------------------- C34
\* C34: while an age vault is open, the Recipients list of the Config it was
\* created from reads as it did at the call of the constructor, whatever
\* AddRecipient and RemoveRecipient calls were made.
C34_ConfigRecipientsUntouched ==
    (engine = "age" /\ phase = "open") => v.cfgRecipients = cfg.recipients

\* ---------------------------------------------------------------------- C36
\* C36: an age vault opened on an existing file has the configured
\* recipient list as its recipient list.
C36_ReopenTakesConfiguredRecipients ==
    [][(engine = "age" /\ fs.file # NoFile /\ last'.op = "Open" /\ last'.ret = Nil)
        => v'.state.recipients = cfg'.recipients]_vars


\* ---------------------------------------------------------------------- C37
\* C37: the reading methods leave the engine and the files as they are, and
\* a Close (the first or a repeated one) and a successful open of a file
\* that holds a ciphertext leave the files as they are.
C37_ReadsCloseAndOpenDoNotWrite ==
    [][/\ last'.op \in ReadOps => (v' = v /\ fs' = fs)
       /\ (last'.op = "Close" /\ last'.ret = Nil) => fs' = fs
       /\ (last'.op = "Open" /\ last'.ret = Nil /\ fs.file.kind \in {"aes", "age"})
            => fs' = fs]_vars

\* An engine opened on a file of another version without writing it, and
\* read since.
C37_Witness ==
    /\ scope = "open"
    /\ phase = "open"
    /\ last.op = "GetSecret"
    /\ last.ret = Nil
    /\ fs.file.kind = "aes"
    /\ fs.file.plain.version \in OtherVersions

\* --------------------------------------- two engine objects on one vault path
\* Two engine objects opened on the same path (two New calls with the same
\* id and storage path, or two processes) share nothing but the directory.
\* disk.inodes are the contents of the files, disk.file and disk.tmp the
\* inodes the two names point to (0: no such name), disk.fd the inode an
\* object is writing, disk.at where the object is in save.
MaxSaves == 2
Instance == 1..2

\* The contents of a file: nothing, the ciphertext of the n-th save of an
\* object, or bytes that are no whole ciphertext.
Empty == [kind |-> "empty"]
Torn == [kind |-> "partial"]
Sealed(i, n) == [kind |-> "ciphertext", by |-> i, save |-> n]

InitDisk ==
    /\ engine \in {"aes", "age"}
    /\ scope = "instances"
    /\ phase = "none"
    /\ cfg = IF engine = "aes" THEN AesConfig(<<>>) ELSE AgeConfig(<<>>, <<>>)
    /\ v = NewEngine
    /\ fs = [file |-> NoFile, tmp |-> NoFile]
    /\ clock = 0
    /\ faults = 0
    /\ last = Call("none", "", Nil)
    /\ expect = <<>>
    /\ dirty = FALSE
    /\ closed = NotClosed
    /\ createdAt = 0
    /\ lastWritten = 0
    /\ crash = NoCrash
    /\ ConcIdle
    /\ fn = [op |-> "none"]
    /\ result = [err |-> Nil]
    /\ rand = 0
    /\ mem = [heap |-> <<>>, held |-> {}, secret |-> 0, original |-> <<>>]
    /\ disk = [NoDisk EXCEPT !.inodes = <<Sealed(0, 0)>>, !.file = 1]
    /\ ext = NoExt
    /\ ring = NoRing
    /\ loc = NoLocal

\* The frame of a step of save in one of the objects.
DiskFrame ==
    UNCHANGED <<engine, scope, phase, cfg, v, fs, clock, faults, last, expect, dirty,
                closed, createdAt, lastWritten, crash, conc, fn, result, rand, mem, ext, ring, loc>>

\* A mutating method of object i reaches save and has encrypted the state.
SealState(i) ==
    /\ disk.at[i] = "idle"
    /\ disk.saves[i] < MaxSaves
    /\ disk' = [disk EXCEPT !.saves[i] = @ + 1, !.at[i] = "open"]
    /\ DiskFrame

\* os.WriteFile opens the temp name with O_CREATE and O_TRUNC: a new empty
\* file when there is no such name, else the file of that name, emptied.
OpenTemp(i) ==
    /\ disk.at[i] = "open"
    /\ disk' = IF disk.tmp = 0
               THEN [disk EXCEPT !.inodes = Append(@, Empty),
                                 !.tmp = Len(disk.inodes) + 1,
                                 !.fd[i] = Len(disk.inodes) + 1,
                                 !.at[i] = "write"]
               ELSE [disk EXCEPT !.inodes[disk.tmp] = Empty,
                                 !.fd[i] = disk.tmp,
                                 !.at[i] = "write"]
    /\ DiskFrame

\* os.WriteFile writes the ciphertext from offset 0 and closes the file: an
\* empty file then holds the ciphertext, a file another object has written
\* in the meantime holds the ciphertext or a mix of the two.
WriteTemp(i) ==
    /\ disk.at[i] = "write"
    /\ \E c \in {Sealed(i, disk.saves[i]), Torn} :
         /\ disk.inodes[disk.fd[i]] = Empty => c = Sealed(i, disk.saves[i])
         /\ disk' = [disk EXCEPT !.inodes[disk.fd[i]] = c, !.fd[i] = 0, !.at[i] = "rename"]
    /\ DiskFrame

\* os.Rename(tempFile, fullPath): fails when the temp name is gone.
RenameTemp(i) ==
    /\ disk.at[i] = "rename"
    /\ disk' = IF disk.tmp = 0 THEN [disk EXCEPT !.at[i] = "remove"]
               ELSE [disk EXCEPT !.file = disk.tmp, !.tmp = 0, !.at[i] = "idle"]
    /\ DiskFrame

\* os.Remove(tempFile) after a failed rename; save returns the error.
RemoveTemp(i) ==
    /\ disk.at[i] = "remove"
    /\ disk' = [disk EXCEPT !.tmp = 0, !.at[i] = "idle"]
    /\ DiskFrame

NextDisk ==
    \/ \E i \in Instance : SealState(i)
    \/ \E i \in Instance : OpenTemp(i)
    \/ \E i \in Instance : WriteTemp(i)
    \/ \E i \in Instance : RenameTemp(i)
    \/ \E i \in Instance : RemoveTemp(i)

SpecDisk == InitDisk /\ [][NextDisk]_vars

\* ---------------------------------------------------------------------- C33
\* C33: with two engine objects saving to one path, the vault file holds a
\* whole ciphertext of one save at every instant.
C33_FileIsWholeCiphertext ==
    scope = "instances" => disk.inodes[disk.file].kind = "ciphertext"

\* ------------------------------------------------- ExternalVaultProvider
\* No AES or age engine takes part: the variables of the vault file and of
\* its host stay at their initial values.
NoVault(s) ==
    /\ engine = "aes"
    /\ scope = s
    /\ phase = "none"
    /\ cfg = AesConfig(<<>>)
    /\ v = NewEngine
    /\ fs = [file |-> NoFile, tmp |-> NoFile]
    /\ clock = 0
    /\ faults = 0
    /\ last = Call("none", "", Nil)
    /\ expect = <<>>
    /\ dirty = FALSE
    /\ closed = NotClosed
    /\ createdAt = 0
    /\ lastWritten = 0
    /\ crash = NoCrash
    /\ ConcIdle
    /\ fn = [op |-> "none"]
    /\ result = [err |-> Nil]
    /\ rand = 0
    /\ mem = [heap |-> <<>>, held |-> {}, secret |-> 0, original |-> <<>>]

\* The values of the configured Environment map: one without and two with
\* a character that expandEnv looks for.
ExtEnvValues == {"plain", "$HOME", "{x}"}

\* strings.Contains(v, "$") || strings.Contains(v, "{").
ContainsExpansion(value) == value \in {"$HOME", "{x}"}

\* os.ExpandEnv: "$HOME" is replaced by the variable's value, a brace
\* without a dollar stays.
OsExpandEnv(value) == IF value = "$HOME" THEN "/home" ELSE value

\* The configured Environment maps: none, and one variable.
ExtEnvironments == {<<>>} \cup {[k \in {"E"} |-> value] : value \in ExtEnvValues}

\* The calls the goroutines make in all.
MaxExtCalls == 2

\* The names the goroutines pass.
ExtKeys == {<<"a">>, <<>>}

\* The methods that take v.mu.Lock and those that take v.mu.RLock.
ExtWriteOps == {"SetSecret", "DeleteSecret"}
ExtReadOps == {"GetSecret", "HasSecret", "ListSecrets", "Metadata"}

\* The provider: whether an Exists command is configured, the Environment
\* map, the names the external tool stores, the RWMutex (the goroutine
\* holding the write lock, the writer that has announced itself, the read
\* locks each goroutine holds), and for every goroutine its call, where it
\* is in it, which expandEnv of the call it is in and what it is doing to
\* the Environment map.
InitExt ==
    /\ NoVault("external")
    /\ disk = NoDisk
    /\ ring = NoRing
    /\ loc = NoLocal
    /\ \E e \in BOOLEAN, m \in ExtEnvironments :
         ext = [kind |-> "external", exists |-> e, env |-> m, store |-> {},
                writer |-> 0, pending |-> {}, held |-> [t \in Thread |-> 0],
                at |-> [t \in Thread |-> "idle"],
                op |-> [t \in Thread |-> "none"],
                key |-> [t \in Thread |-> <<>>],
                round |-> [t \in Thread |-> 0],
                acc |-> [t \in Thread |-> "none"],
                ret |-> [t \in Thread |-> Nil],
                calls |-> 0]

ExtFrame ==
    UNCHANGED <<engine, scope, phase, cfg, v, fs, clock, faults, last, expect, dirty,
                closed, createdAt, lastWritten, crash, conc, fn, result, rand, mem, disk, ring, loc>>

\* HasSecret without an Exists command calls GetSecret.
ExtNested(t) == ext.op[t] = "HasSecret" /\ ~ext.exists

\* A goroutine calls a method.
ExtCall(t, op, key) ==
    /\ ext.at[t] = "idle"
    /\ ext.calls < MaxExtCalls
    /\ ext' = [ext EXCEPT !.op[t] = op, !.key[t] = key, !.ret[t] = Nil,
                          !.calls = @ + 1,
                          !.at[t] = IF op \in ExtWriteOps THEN "lock" ELSE "rlock"]
    /\ ExtFrame

\* v.mu.RLock, in the method and in the GetSecret that HasSecret calls: a
\* reader waits while a writer holds the lock or has announced itself.
ExtRLock(t) ==
    /\ ext.at[t] \in {"rlock", "rlock2"}
    /\ ext.writer = 0
    /\ ext.pending = {}
    /\ ext' = [ext EXCEPT !.held[t] = @ + 1,
                          !.at[t] = IF ext.at[t] = "rlock" THEN "body" ELSE "body2"]
    /\ ExtFrame

\* v.mu.Lock, first half: the writer announces itself, which stops new
\* readers.
ExtLockAnnounce(t) ==
    /\ ext.at[t] = "lock"
    /\ ext.writer = 0
    /\ ext.pending = {}
    /\ ext' = [ext EXCEPT !.pending = {t}, !.at[t] = "lockwait"]
    /\ ExtFrame

\* v.mu.Lock, second half: the writer goes on once every read lock is
\* released.
ExtLockAcquire(t) ==
    /\ ext.at[t] = "lockwait"
    /\ \A u \in Thread : ext.held[u] = 0
    /\ ext' = [ext EXCEPT !.writer = t, !.pending = {}, !.at[t] = "body"]
    /\ ExtFrame

\* Where a method goes when it returns: it releases what it locked.
ExtReturn(t) ==
    IF ext.op[t] \in ExtWriteOps THEN "unlock"
    ELSE IF ExtNested(t) /\ ext.at[t] # "body" THEN "runlock2"
    ELSE "runlock"

\* The head of a method: the name is validated (by the methods that take
\* one); HasSecret without an Exists command calls GetSecret; the others
\* render their command.
ExtBody(t) ==
    /\ ext.at[t] \in {"body", "body2"}
    /\ ext' = IF ext.op[t] \notin {"ListSecrets", "Metadata"}
                 /\ ValidateSecretKey(ext.key[t]) # Nil
              THEN [ext EXCEPT !.ret[t] = "InvalidKey", !.at[t] = ExtReturn(t)]
              ELSE IF ext.at[t] = "body" /\ ExtNested(t)
              THEN [ext EXCEPT !.at[t] = "rlock2"]
              ELSE [ext EXCEPT !.round[t] = 1, !.at[t] = "expand"]
    /\ ExtFrame

\* Where a goroutine goes after an expandEnv: renderCmdTemplate is followed
\* by executeCommand, whose environmentToSlice calls expandEnv again.
ExtAfterExpand(t) ==
    IF ext.round[t] = 1 THEN [ext EXCEPT !.round[t] = 2, !.acc[t] = "none", !.at[t] = "expand"]
    ELSE [ext EXCEPT !.round[t] = 0, !.acc[t] = "none", !.at[t] = "run"]

\* expandEnv starts to range over the Environment map.
ExtExpandRead(t) ==
    /\ ext.at[t] = "expand"
    /\ ext' = [ext EXCEPT !.acc[t] = "read", !.at[t] = "expanding"]
    /\ ExtFrame

\* expandEnv assigns env[k] = os.ExpandEnv(v) for the values with a "$" or
\* a "{", in the map of the configuration itself.
ExtExpandWrite(t) ==
    /\ ext.at[t] = "expanding"
    /\ ext' = IF \E k \in DOMAIN ext.env : ContainsExpansion(ext.env[k])
              THEN [ext EXCEPT !.env = [k \in DOMAIN ext.env |->
                                           IF ContainsExpansion(ext.env[k])
                                           THEN OsExpandEnv(ext.env[k]) ELSE ext.env[k]],
                               !.acc[t] = "write",
                               !.at[t] = "expanded"]
              ELSE ExtAfterExpand(t)
    /\ ExtFrame

\* expandEnv returns.
ExtExpandEnd(t) ==
    /\ ext.at[t] = "expanded"
    /\ ext' = ExtAfterExpand(t)
    /\ ExtFrame

\* v.execute runs the command: the external tool stores, removes or looks
\* up the name.
ExtRun(t) ==
    /\ ext.at[t] = "run"
    /\ LET key == ext.key[t]
           op == ext.op[t]
       IN ext' = [ext EXCEPT
                    !.store = IF op = "SetSecret" THEN @ \cup {key}
                              ELSE IF op = "DeleteSecret" THEN @ \ {key}
                              ELSE @,
                    !.ret[t] = IF op \in {"GetSecret", "HasSecret", "DeleteSecret"}
                                  /\ key \notin ext.store
                               THEN "not found" ELSE Nil,
                    !.at[t] = ExtReturn(t)]
    /\ ExtFrame

\* v.mu.RUnlock, deferred: of GetSecret inside HasSecret, then of the method.
ExtRUnlock(t) ==
    /\ ext.at[t] \in {"runlock2", "runlock"}
    /\ ext' = [ext EXCEPT !.held[t] = @ - 1,
                          !.at[t] = IF ext.at[t] = "runlock2" THEN "runlock" ELSE "idle"]
    /\ ExtFrame

\* v.mu.Unlock, deferred.
ExtUnlock(t) ==
    /\ ext.at[t] = "unlock"
    /\ ext' = [ext EXCEPT !.writer = 0, !.at[t] = "idle"]
    /\ ExtFrame

\* A step of a goroutine inside a call.
ExtStep(t) ==
    \/ ExtRLock(t)
    \/ ExtLockAnnounce(t)
    \/ ExtLockAcquire(t)
    \/ ExtBody(t)
    \/ ExtExpandRead(t)
    \/ ExtExpandWrite(t)
    \/ ExtExpandEnd(t)
    \/ ExtRun(t)
    \/ ExtRUnlock(t)
    \/ ExtUnlock(t)

NextExt ==
    \/ \E t \in Thread, op \in ExtWriteOps \cup ExtReadOps, key \in ExtKeys : ExtCall(t, op, key)
    \/ \E t \in Thread : ExtStep(t)

\* The Go scheduler runs every goroutine that can take a step.
SpecExt == InitExt /\ [][NextExt]_vars /\ \A t \in Thread : WF_vars(ExtStep(t))

\* ---------------------------------------------------------------------- C31
\* C31: with no Exists command configured, every HasSecret call returns.
C31_HasSecretReturns ==
    \A t \in Thread :
        (scope = "external" /\ ~ext.exists /\ ext.op[t] = "HasSecret" /\ ext.at[t] # "idle")
            ~> (ext.at[t] = "idle")

\* ---------------------------------------------------------------------- C32
\* C32: no goroutine writes the Environment map while another goroutine
\* reads or writes it.
C32_NoRaceOnEnvironment ==
    scope = "external" =>
        \A t, u \in Thread : (t # u /\ ext.acc[t] = "write") => ext.acc[u] = "none"

\* ------------------------------------------ KeyringVault, UnencryptedVault
\* The byte of a character, for the characters the names of this module use.
CharCode(c) ==
    CASE c = "-" -> 45 [] c = "." -> 46 [] c = "9" -> 57 [] c = "A" -> 65
      [] c = "_" -> 95 [] c = "a" -> 97 [] c = "b" -> 98 [] c = "c" -> 99
      [] OTHER -> 32

RECURSIVE StringLess(_, _)
\* a < b for Go strings: byte by byte, a proper prefix first.
StringLess(a, b) ==
    IF b = <<>> THEN FALSE
    ELSE IF a = <<>> THEN TRUE
    ELSE IF CharCode(Head(a)) # CharCode(Head(b)) THEN CharCode(Head(a)) < CharCode(Head(b))
    ELSE StringLess(Tail(a), Tail(b))

RECURSIVE InsertSorted(_, _)
InsertSorted(s, x) ==
    IF s = <<>> THEN <<x>>
    ELSE IF StringLess(x, Head(s)) THEN <<x>> \o s
    ELSE <<Head(s)>> \o InsertSorted(Tail(s), x)

RECURSIVE SortStrings(_)
\* sort.Strings: the elements in ascending order, equal ones kept.
SortStrings(s) == IF s = <<>> THEN <<>> ELSE InsertSorted(SortStrings(Tail(s)), Head(s))

\* The names and the value the host uses, and the failures of writes it may
\* meet.
MaxRingFaults == 1
RingNames == {<<"b">>, <<"a">>, <<"A">>, <<"a", "b">>, <<>>}
RingValue == <<118>>

\* An entry of the keyring that is not there.
NoEntry == [syntax |-> "none"]

\* json.Marshal of a []string and json.Unmarshal of it.
JsonList(secrets) == [syntax |-> "json", list |-> secrets]

\* KeyringVault.loadSecretsList: the empty list when there is no entry.
loadSecretsList(r) == IF r.list = NoEntry THEN <<>> ELSE r.list.list

\* KeyringVault.saveSecretsList.
saveSecretsList(r, secrets, out) ==
    IF out = "listErr" THEN [r |-> r, err |-> "KeyringError"]
    ELSE [r |-> [r EXCEPT !.list = JsonList(secrets)], err |-> Nil]

\* An addSecretToList that appends and does not sort.
addSecretToList_noSort(r, key, out) ==
    LET secrets == loadSecretsList(r)
    IN IF \E i \in 1..Len(secrets) : secrets[i] = key THEN [r |-> r, err |-> Nil]
       ELSE saveSecretsList(r, Append(secrets, key), out)

\* KeyringVault.addSecretToList.
addSecretToList(r, key, out) ==
    LET secrets == loadSecretsList(r)
    IN IF \E i \in 1..Len(secrets) : secrets[i] = key THEN [r |-> r, err |-> Nil]
       ELSE saveSecretsList(r, SortStrings(Append(secrets, key)), out)

\* KeyringVault.removeSecretFromList.
removeSecretFromList(r, key, out) ==
    LET secrets == loadSecretsList(r)
        i == IndexOf(secrets, key)
    IN saveSecretsList(r, IF i = 0 THEN secrets ELSE RemoveAt(secrets, i), out)

\* KeyringVault.saveMetadata.
saveMetadata(r, out) ==
    IF out = "metaErr" THEN [r |-> r, err |-> "KeyringError"]
    ELSE [r |-> [r EXCEPT !.meta = TRUE], err |-> Nil]

\* KeyringVault.SetSecret: the secret's entry, the list, the metadata.
KeyringSetSecret(r, key, value, out) ==
    IF ValidateSecretKey(key) # Nil THEN [r |-> r, err |-> "InvalidKey"]
    ELSE IF out = "secretErr" THEN [r |-> r, err |-> "KeyringError"]
    ELSE LET a == addSecretToList([r EXCEPT !.items = MapSet(@, key, value)], key, out)
         IN IF a.err # Nil THEN a ELSE saveMetadata(a.r, out)

\* KeyringVault.DeleteSecret.
KeyringDeleteSecret(r, key, out) ==
    IF ValidateSecretKey(key) # Nil THEN [r |-> r, err |-> "InvalidKey"]
    ELSE IF key \notin DOMAIN r.items THEN [r |-> r, err |-> "SecretNotFound"]
    ELSE IF out = "secretErr" THEN [r |-> r, err |-> "KeyringError"]
    ELSE LET a == removeSecretFromList([r EXCEPT !.items = MapDelete(@, key)], key, out)
         IN IF a.err # Nil THEN a ELSE saveMetadata(a.r, out)

\* KeyringVault.ListSecrets and HasSecret.
KeyringListSecrets(r) == loadSecretsList(r)
KeyringHasSecret(r, key) == ValidateSecretKey(key) = Nil /\ key \in DOMAIN r.items

\* UnencryptedVault.save: the state as indented JSON, written to the temp
\* file and renamed.
UnencryptedSave(r, out) ==
    LET w == WriteAtomic(r.fs, [syntax |-> "json", secrets |-> r.secrets], out)
    IN [r |-> [r EXCEPT !.fs = w.fs], err |-> w.err]

\* UnencryptedVault.SetSecret.
UnencryptedSetSecret(r, key, value, out) ==
    IF ValidateSecretKey(key) # Nil THEN [r |-> r, err |-> "InvalidKey"]
    ELSE UnencryptedSave([r EXCEPT !.secrets = MapSet(@, key, value)], out)

\* UnencryptedVault.DeleteSecret.
UnencryptedDeleteSecret(r, key, out) ==
    IF key \notin DOMAIN r.secrets THEN [r |-> r, err |-> "SecretNotFound"]
    ELSE UnencryptedSave([r EXCEPT !.secrets = MapDelete(@, key)], out)

\* UnencryptedVault.ListSecrets: the keys of the map as the range yields
\* them, sorted.
UnencryptedListSecrets(r) == {SortStrings(l) : l \in Orderings(DOMAIN r.secrets)}

\* The provider after NewKeyringVault on an empty keyring, or after
\* NewUnencryptedVault on a path with no file.
InitRing ==
    /\ NoVault("store")
    /\ disk = NoDisk
    /\ ext = NoExt
    /\ loc = NoLocal
    /\ ring \in {[kind |-> "keyring", items |-> <<>>, list |-> NoEntry, meta |-> TRUE,
                  faults |-> 0, failed |-> FALSE, last |-> Call("none", <<>>, Nil)],
                 [kind |-> "unencrypted", secrets |-> <<>>,
                  fs |-> [file |-> [syntax |-> "json", secrets |-> <<>>], tmp |-> NoFile],
                  faults |-> 0, failed |-> FALSE, last |-> Call("none", <<>>, Nil)]}

RingFrame ==
    UNCHANGED <<engine, scope, phase, cfg, v, fs, clock, faults, last, expect, dirty,
                closed, createdAt, lastWritten, crash, conc, fn, result, rand, mem,
                disk, ext, loc>>

\* What a write to the keyring or to the file system may do.
RingOutcomes ==
    IF ring.faults >= MaxRingFaults THEN {"ok"}
    ELSE IF ring.kind = "keyring" THEN {"ok", "secretErr", "listErr", "metaErr"}
    ELSE {"ok", "mkdirErr", "writeErr", "renameErr"}

\* The host's call of a mutating method, recorded with its outcome.
RingCall(op, key, r, rOk, out) ==
    /\ out = "ok" \/ r # rOk
    /\ ring' = [r.r EXCEPT !.last = Call(op, key, r.err),
                           !.faults = IF out = "ok" THEN @ ELSE @ + 1,
                           !.failed = @ \/ r.err # Nil]
    /\ RingFrame

RingSetSecret(key, out) ==
    IF ring.kind = "keyring"
    THEN RingCall("SetSecret", key, KeyringSetSecret(ring, key, RingValue, out),
                  KeyringSetSecret(ring, key, RingValue, "ok"), out)
    ELSE RingCall("SetSecret", key, UnencryptedSetSecret(ring, key, RingValue, out),
                  UnencryptedSetSecret(ring, key, RingValue, "ok"), out)

RingDeleteSecret(key, out) ==
    IF ring.kind = "keyring"
    THEN RingCall("DeleteSecret", key, KeyringDeleteSecret(ring, key, out),
                  KeyringDeleteSecret(ring, key, "ok"), out)
    ELSE RingCall("DeleteSecret", key, UnencryptedDeleteSecret(ring, key, out),
                  UnencryptedDeleteSecret(ring, key, "ok"), out)

NextRing ==
    \/ \E key \in RingNames, out \in RingOutcomes : RingSetSecret(key, out)
    \/ \E key \in RingNames, out \in RingOutcomes : RingDeleteSecret(key, out)

SpecRing == InitRing /\ [][NextRing]_vars

\* The names stored, and the results ListSecrets may return.
RingStored == IF ring.kind = "keyring" THEN DOMAIN ring.items ELSE DOMAIN ring.secrets
RingListed ==
    IF ring.kind = "keyring" THEN {KeyringListSecrets(ring)} ELSE UnencryptedListSecrets(ring)

\* ---------------------------------------------------------------------- C38
\* C38: while every SetSecret and DeleteSecret has succeeded, ListSecrets of
\* the keyring and of the unencrypted provider returns the names stored,
\* each once, in ascending order.
C38_ListedSorted ==
    (scope = "store" /\ ~ring.failed) =>
        \A l \in RingListed :
            /\ Range(l) = RingStored
            /\ \A i \in 1..(Len(l) - 1) : StringLess(l[i], l[i + 1])

\* A keyring with two names left after a successful delete, and an
\* unencrypted vault with three names.
C38_Witness ==
    /\ scope = "store"
    /\ ~ring.failed
    /\ ring.last.ret = Nil
    /\ \/ ring.kind = "keyring" /\ ring.last.op = "DeleteSecret" /\ Len(loadSecretsList(ring)) = 2
       \/ ring.kind = "unencrypted" /\ Cardinality(DOMAIN ring.secrets) = 3

\* ---------------------------------------------------------------------- C39
\* C39: the names ListSecrets of the keyring provider returns are the names
\* for which HasSecret is true, after failed calls too.
C39_ListMatchesHasSecret ==
    (scope = "store" /\ ring.kind = "keyring") =>
        Range(KeyringListSecrets(ring)) = {key \in RingNames : KeyringHasSecret(ring, key)}

\* ------------------------------------------------------------- LocalVault
\* SecretValue.String of secret.go: eight asterisks, whatever the value.
MaskedString(secret) == <<42, 42, 42, 42, 42, 42, 42, 42>>

\* The values the host stores: the secret values, and the mask itself.
LocalValues == SecretValues \cup {<<42, 42, 42, 42, 42, 42, 42, 42>>}

\* LocalVault.save: the state as JSON, encrypted for the recipients.
LocalSave(l) ==
    [l EXCEPT !.file = AgeEncrypt(l.recipients, [syntax |-> "json", secrets |-> l.secrets])]

\* LocalVault.SetSecret: the map entry becomes value.String().
LocalSetSecret(l, key, value) ==
    LocalSave([l EXCEPT !.secrets = MapSet(@, key, MaskedString(value))])

\* LocalVault.GetSecret.
LocalGetSecret(l, key) ==
    IF key \in DOMAIN l.secrets
    THEN [secret |-> NewSecretValue(l.secrets[key]), err |-> Nil]
    ELSE [secret |-> Nil, err |-> "SecretNotFound"]

\* LocalVault.DeleteSecret.
LocalDeleteSecret(l, key) ==
    IF key \notin DOMAIN l.secrets THEN [l |-> l, err |-> "SecretNotFound"]
    ELSE [l |-> LocalSave([l EXCEPT !.secrets = MapDelete(@, key)]), err |-> Nil]

\* The vault after NewLocalVault on a path with no file.
InitLocal ==
    /\ NoVault("local")
    /\ disk = NoDisk
    /\ ext = NoExt
    /\ ring = NoRing
    /\ loc = LocalSave([kind |-> "local", recipients |-> <<"pkA">>, secrets |-> <<>>,
                        file |-> NoFile, got |-> Nil, last |-> Call("none", <<>>, Nil)])

LocalFrame ==
    UNCHANGED <<engine, scope, phase, cfg, v, fs, clock, faults, last, expect, dirty,
                closed, createdAt, lastWritten, crash, conc, fn, result, rand, mem,
                disk, ext, ring>>

\* The host sets a secret and reads it back.
LocalSetAndGet(key, value) ==
    /\ LET l == LocalSetSecret(loc, key, NewSecretValue(value))
       IN loc' = [l EXCEPT !.got = LocalGetSecret(l, key).secret,
                           !.last = [op |-> "SetSecret", arg |-> key, ret |-> Nil,
                                     value |-> NewSecretValue(value)]]
    /\ LocalFrame

\* The host deletes a secret.
LocalDelete(key) ==
    /\ LET d == LocalDeleteSecret(loc, key)
       IN loc' = [d.l EXCEPT !.got = Nil, !.last = Call("DeleteSecret", key, d.err)]
    /\ LocalFrame

NextLocal ==
    \/ \E key \in Names, value \in LocalValues : LocalSetAndGet(key, value)
    \/ \E key \in Names : LocalDelete(key)

SpecLocal == InitLocal /\ [][NextLocal]_vars

\* ---------------------------------------------------------------------- C40
\* C40: after SetSecret(k, s) on a LocalVault, GetSecret(k) returns a secret
\* with the plaintext of s, and the state in the file holds that plaintext
\* under k.
C40_LocalRoundTrip ==
    (scope = "local" /\ loc.last.op = "SetSecret") =>
        /\ PlainTextString(loc.got) = PlainTextString(loc.last.value)
        /\ loc.file.plain.secrets[loc.last.arg] = PlainTextString(loc.last.value)

====
